---- MODULE Spec2Model ----
(***************************************************************************)
(* cloudhand: the apply orchestrator (core/apply.py) and the SSH server    *)
(* deployer (adapters/deployer.py) as state machines.                      *)
(*                                                                         *)
(*   SpecApply   one run of apply_plan, deploys stepped command by command *)
(*   SpecRun     one ServerDeployer session running commands and uploads   *)
(*   SpecDeploy  deploy(app) run repeatedly against one host               *)
(*   SpecKeys    concurrent get_or_create_project_ssh_key calls            *)
(*   SpecCompile graph_to_spec on small graphs                             *)
(*   SpecGen     generate on a directory with a history                    *)
(*   SpecScan    run_scan against a paging provider                        *)
(*   SpecRoute   configure_combined_nginx as a function of its apps        *)
(*   SpecSync    the worker's scan, sync_spec, plan and apply operations   *)
(*   SpecPage    the paginated fetch (SpecPageFair: with fairness)         *)
(*                                                                         *)
(* Text (commands, names, URLs) is a sequence of symbols; str.replace is   *)
(* the operator Replace on such sequences.                                 *)
(***************************************************************************)
EXTENDS Integers, Sequences, FiniteSets, TLC

VARIABLES
    plan,           \* the plan file's content (input of apply_plan)
    nginx_mode,     \* CLOUDHAND_NGINX_MODE after strip().lower()
    gh_token,       \* GITHUB_TOKEN / GH_TOKEN / GITHUB_PAT, <<>> when unset
    pc,             \* position of apply_plan / of the deploy caller
    new_spec,       \* apply_plan's local new_spec (validated model)
    spec_json,      \* content of cloudhand/spec.json
    tf_files,       \* content of the generated Terraform file set
    key_store,      \* persisted project SSH key files [priv, pub]
    priv_key,       \* apply_plan's local priv_key (0 before step 4)
    tool_log,       \* provisioning-tool invocations, in order
    outcome,        \* how the call ended: [kind, code, err]
    server_ips,     \* the server_ips output map read back
    inst_i,         \* index of the instance the deploy loop is at
    app_i,          \* index of the workload the deploy loop is at
    deploys,        \* ServerDeployer.deploy invocations, in order
    deployed_apps,  \* combined mode: apps deployed on the current instance
    dpc,            \* stage of the running deploy / configure_combined_nginx
    cur_app,        \* name of the app being deployed
    cur_ip,         \* address of the current ServerDeployer
    cfg_nginx,      \* deploy's configure_nginx argument
    transport,      \* paramiko transport: "none", "active" or "dead"
    attempts,       \* connect attempts made by the last run/upload_file
    sleeps,         \* seconds slept in connect() by the last run/upload_file
    cmd_log,        \* commands and uploads executed on hosts, in order
    last_log,       \* the last "Running:" log line printed
    raised,         \* the last exception created by the deployer
    hosts,          \* remote host state, per address
    faulty,         \* stages that fail for environmental reasons (SpecDeploy)
    runs,           \* number of deploy calls started (SpecDeploy, SpecRun)
    prev_ok,        \* the previous deploy call returned normally (SpecDeploy)
    host0,          \* the host state before the first deploy call (SpecDeploy)
    backend,        \* where project keys are kept: "local" files or "openbao"
    kpc,            \* position of each get_or_create_project_ssh_key caller
    kkey,           \* each caller's local key (generated or being read)
    kret,           \* the (private, public) pair each caller returned
    kmade,          \* number of RSAKey.generate calls made so far
    graph,          \* the CloudGraph given to graph_to_spec: [nodes, edges]
    cprovider,      \* the provider argument of graph_to_spec
    cout,           \* graph_to_spec's results so far, one per invocation
    gdir,           \* the Terraform directory generate writes into: file -> content
    gref,           \* an empty directory after the same generate call, for comparison
    gspec,          \* the spec of the last generate call
    glast,          \* the last operation on gdir: "none", "edit" or "generate"
    gops,           \* number of operations on gdir so far
    stoken,         \* a Hetzner token is configured (config or HCLOUD_TOKEN)
    sapi,           \* what the provider answers: per listing, its pages
    spc,            \* position of run_scan
    sli,            \* index of the listing being fetched
    spg,            \* page of that listing requested next
    sitems,         \* the items collected so far, per listing
    sreqs,          \* number of API requests sent
    sfailed,        \* some API request failed
    scan_json,      \* content of cloudhand/scan.json
    scan_old,       \* content of cloudhand/scan.json before the run
    sout,           \* what run_scan returned or raised
    rapps,          \* the apps list given to configure_combined_nginx
    rconf,          \* the combined site configure_combined_nginx wrote
    papi,           \* what the provider answers to a request for each page
    ppage,          \* _get_paginated's local page
    pitems,         \* _get_paginated's local items
    pseen,          \* the pages _get_paginated has requested
    prepeat,        \* some page was requested a second time
    ppc,            \* position of _get_paginated: "loop", "done" or "raised"
    wspec_json,     \* cloudhand/spec.json as the worker's operations leave it
    wscan_json,     \* cloudhand/scan.json as the worker's operations leave it
    wplan,          \* the plan artifact the next apply_plan reads
    wdeploys,       \* the workloads the last apply_plan deployed
    wlast,          \* the worker's last operation
    wops            \* number of worker operations so far

progVars == << plan, nginx_mode, gh_token, pc, new_spec, spec_json, tf_files,
               key_store, priv_key, tool_log, outcome, server_ips, inst_i, app_i,
               deploys, deployed_apps, dpc, cur_app, cur_ip, cfg_nginx, transport,
               attempts, sleeps, cmd_log, last_log, raised, hosts, faulty, runs,
               prev_ok, host0 >>

keyVars == << backend, kpc, kkey, kret, kmade >>

compileVars == << graph, cprovider, cout >>

genVars == << gdir, gref, gspec, glast, gops >>

scanVars == << stoken, sapi, spc, sli, spg, sitems, sreqs, sfailed, scan_json,
              scan_old, sout >>

routeVars == << rapps, rconf >>

pageVars == << papi, ppage, pitems, pseen, prepeat, ppc >>

syncVars == << wspec_json, wscan_json, wplan, wdeploys, wlast, wops >>

moreVars == << routeVars, pageVars, syncVars >>

libVars == << keyVars, compileVars, genVars, scanVars, moreVars >>

vars == << progVars, libVars >>

applyVars == << plan, nginx_mode, new_spec, spec_json, tf_files, key_store,
                priv_key, tool_log, server_ips, inst_i, app_i, deploys,
                deployed_apps >>

deployOnlyVars == << faulty, runs, prev_ok, host0 >>

----------------------------------------------------------------------------
(* Bounds of the model *)

\* SpecDeploy: how many times the caller invokes deploy(app) on the host
MaxRuns == 2
\* SpecRun: how many run / upload_file calls one session makes
MaxCmds == 2

(* Program constants *)

\* SpecGen: how many generate calls and hand edits one directory sees
MaxGenOps == 3

\* SpecCompile: how many nodes and edges the input graph has at most
MaxNodes == 3
MaxEdges == 2

\* SpecKeys: how many callers ask for the same project's key concurrently
MaxCallers == 3

\* SpecRoute: how many apps configure_combined_nginx is given at most
MaxApps == 3

\* SpecPage: how many pages the provider's listing has at most
MaxPages == 3

\* SpecSync: how many operations the worker runs on one workspace
MaxSyncOps == 4

\* deployer.py:29  for _ in range(10)
ConnectAttempts == 10
\* deployer.py:34  time.sleep(5)
SleepSeconds == 5

----------------------------------------------------------------------------
(* Text as sequences of symbols *)

\* str.replace(old, new): every non-overlapping occurrence, leftmost first
RECURSIVE Replace(_, _, _)
Replace(s, old, new) ==
    IF old = <<>> \/ Len(s) < Len(old) THEN s
    ELSE IF SubSeq(s, 1, Len(old)) = old
         THEN new \o Replace(SubSeq(s, Len(old) + 1, Len(s)), old, new)
         ELSE << s[1] >> \o Replace(Tail(s), old, new)

\* Python's `t in s` for strings
Contains(s, t) ==
    \E i \in 1..(Len(s) - Len(t) + 1) : SubSeq(s, i, i + Len(t) - 1) = t

Missing == << "<missing>" >>
NoText == <<>>

----------------------------------------------------------------------------
(* Inputs: applications, specs, plans *)

\* models.py ApplicationSpec with its BuildSpec and ServiceSpec: what deploy reads
MkApp(name, repo, nodejs, pkgs, install, build, env, envfile, envupload, ports, names, https) ==
    [ name |-> name, repo_url |-> repo, branch |-> "main", nodejs |-> nodejs,
      pkgs |-> pkgs, install |-> install, build |-> build, env |-> env,
      env_file |-> envfile, env_upload |-> envupload, ports |-> ports,
      server_names |-> names, https |-> https, destination_path |-> "/opt/apps" ]

HttpsRepo == << "https://", "github.com/acme/app.git" >>
SshRepo == << "git@github.com:", "acme/worker.git" >>

AppUi == MkApp("ui", HttpsRepo, TRUE, FALSE, TRUE, TRUE, TRUE, "", FALSE,
               << 3000 >>, << "a.example", " a.example " >>, TRUE)
AppApi == MkApp("api", HttpsRepo, FALSE, TRUE, TRUE, FALSE, TRUE, "-.env", TRUE,
                << 8000, 8001 >>, << " " >>, TRUE)
AppWorker == MkApp("worker", SshRepo, FALSE, FALSE, FALSE, FALSE, FALSE, "/etc/worker.env",
                   FALSE, << >>, << "w.example" >>, TRUE)
AppSite == MkApp("site", HttpsRepo, FALSE, FALSE, FALSE, TRUE, FALSE, "", FALSE,
                 << 8080 >>, << "b.example" >>, FALSE)

AppNames == { "ui", "api", "worker", "site" }

AppOf(n) ==
    CASE n = "ui" -> AppUi
      [] n = "api" -> AppApi
      [] n = "worker" -> AppWorker
      [] OTHER -> AppSite

NameWeb == << "web" >>
NameDb == << "db", "-", "1" >>
NameJob == << "job" >>
NameOld == << "old" >>
NetApp == << "app", "-", "net" >>
InstanceNames == { NameWeb, NameDb, NameJob, NameOld }

\* models.py InstanceSpec as found in a plan's JSON (name may be missing)
RawInst(name, network, workloads) ==
    [ name |-> name, network |-> network, workloads |-> workloads ]

\* a plan's new_spec JSON value: null, or an object with some keys
RawNull == [ kind |-> "null", provider |-> "<missing>", has_lists |-> FALSE,
             networks |-> << >>, instances |-> << >> ]
RawEmpty == [ kind |-> "dict", provider |-> "<missing>", has_lists |-> FALSE,
              networks |-> << >>, instances |-> << >> ]
RawNoProvider == [ kind |-> "dict", provider |-> "<missing>", has_lists |-> TRUE,
                   networks |-> << >>,
                   instances |-> << RawInst(NameWeb, NetApp, << "ui" >>) >> ]
RawBadInstance == [ kind |-> "dict", provider |-> "hetzner", has_lists |-> TRUE,
                    networks |-> << [ name |-> NetApp ] >>,
                    instances |-> << RawInst(Missing, NetApp, << "ui" >>) >> ]
RawProviderOnly == [ kind |-> "dict", provider |-> "hetzner", has_lists |-> FALSE,
                     networks |-> << >>, instances |-> << >> ]
RawUnknownProvider == [ kind |-> "dict", provider |-> "aws", has_lists |-> TRUE,
                        networks |-> << [ name |-> NetApp ] >>,
                        instances |-> << RawInst(NameWeb, NetApp, << "ui" >>) >> ]
RawFull == [ kind |-> "dict", provider |-> "hetzner", has_lists |-> TRUE,
             networks |-> << [ name |-> NetApp ] >>,
             instances |-> << RawInst(NameWeb, NetApp, << "ui", "api" >>),
                              RawInst(NameDb, NetApp, << >>),
                              RawInst(NameJob, NetApp, << "worker" >>) >> ]

\* every required field present; the instance names a network the spec does not list
RawLooseNetwork == [ kind |-> "dict", provider |-> "hetzner", has_lists |-> TRUE,
                     networks |-> << >>,
                     instances |-> << RawInst(NameDb, NetApp, << >>) >> ]

RawSpecs == { RawNull, RawEmpty, RawNoProvider, RawBadInstance, RawProviderOnly,
              RawUnknownProvider, RawFull, RawLooseNetwork }

Plans == [ exists : { TRUE }, new_spec : RawSpecs ]
            \cup { [ exists |-> FALSE, new_spec |-> RawNull ] }

\* apply.py:27  `not new_spec_data`: None and {} are falsy
Falsy(d) == d.kind = "null" \/ (d.provider = "<missing>" /\ ~d.has_lists)

\* mutant of Validates: only the top-level required field is checked
ValidatesProviderOnly(d) == d.kind = "dict" /\ d.provider # "<missing>"

\* models.py:191-199 with 114-121: the required fields are present
Validates(d) ==
    /\ d.kind = "dict"
    /\ d.provider # "<missing>"
    /\ \A i \in 1..Len(d.instances) : d.instances[i].name # Missing

\* DesiredStateSpec.model_validate: the model, list fields defaulting to []
ModelValidate(d) ==
    [ provider |-> d.provider,
      networks |-> IF d.has_lists THEN d.networks ELSE << >>,
      instances |-> IF d.has_lists THEN d.instances ELSE << >> ]

OldSpec == [ provider |-> "hetzner", networks |-> << >>,
             instances |-> << RawInst(NameOld, NetApp, << >>) >> ]
NoSpec == [ provider |-> "<none>", networks |-> << >>, instances |-> << >> ]

\* terraform_gen.py:140  name.replace("-", "_")
Sanitize(name) == Replace(name, << "-" >>, << "_" >>)

\* mutant of GenerateFiles: servers.tf and outputs.tf are written without the instances
GenerateFilesNoServers(spec) ==
    [ backend |-> "backend.tf", providers |-> "providers.tf", variables |-> "variables.tf",
      network |-> [ i \in 1..Len(spec.networks) |->
                      [ res |-> Sanitize(spec.networks[i].name),
                        name |-> spec.networks[i].name ] ],
      servers |-> << >>,
      outputs |-> << >> ]

\* terraform_gen.py:164-233  the fixed file set, rendered from the spec alone
GenerateFiles(spec) ==
    [ backend |-> "backend.tf", providers |-> "providers.tf", variables |-> "variables.tf",
      network |-> [ i \in 1..Len(spec.networks) |->
                      [ res |-> Sanitize(spec.networks[i].name),
                        name |-> spec.networks[i].name ] ],
      servers |-> [ i \in 1..Len(spec.instances) |->
                      [ res |-> Sanitize(spec.instances[i].name),
                        name |-> spec.instances[i].name,
                        network_ref |-> Sanitize(spec.instances[i].network) ] ],
      outputs |-> [ i \in 1..Len(spec.instances) |->
                      [ key |-> spec.instances[i].name,
                        ref |-> Sanitize(spec.instances[i].name) ] ] ]

\* terraform_gen.py:236-238
GENERATOR_BY_PROVIDER == { "hetzner" }

\* what `terraform output -json` may hold under server_ips: name -> address ("" = none)
IpOf(name) ==
    CASE name = NameWeb -> "10.0.0.1"
      [] name = NameDb -> "10.0.0.2"
      [] name = NameJob -> "10.0.0.3"
      [] OTHER -> "10.0.0.9"
IPs == { IpOf(n) : n \in InstanceNames }
IpMaps == { [ n \in InstanceNames |-> IF n \in S THEN IpOf(n) ELSE "" ] :
              S \in { {NameWeb, NameDb, NameJob}, {NameWeb, NameDb}, {NameDb, NameJob}, {} } }
NoIps == [ n \in InstanceNames |-> "" ]

ExitCodes == { 0, 1, 2 }

NoOutcome == [ kind |-> "none", code |-> 0, err |-> "" ]
Returned(c) == [ kind |-> "return", code |-> c, err |-> "" ]
Raised(e, c) == [ kind |-> "raise", code |-> c, err |-> e ]

\* pydantic's ValidationError and json's JSONDecodeError subclass ValueError
IsValueError(e) == e \in { "ValueError", "ValidationError" }

----------------------------------------------------------------------------
(* ServerDeployer: pure helpers *)

\* str.strip() on the server names the inputs use
Strip(n) ==
    CASE n = " a.example " -> "a.example"
      [] n = " " -> ""
      [] OTHER -> n

\* deployer.py:65-71  strip, drop blanks, drop repeats, keep first-seen order
RECURSIVE NormalizeFrom(_, _)
NormalizeFrom(server_names, names) ==
    IF server_names = << >> THEN names
    ELSE LET cleaned == Strip(Head(server_names))
         IN  IF cleaned # "" /\ \A i \in 1..Len(names) : names[i] # cleaned
             THEN NormalizeFrom(Tail(server_names), Append(names, cleaned))
             ELSE NormalizeFrom(Tail(server_names), names)
NormalizeServerNames(server_names) == NormalizeFrom(server_names, << >>)

\* deployer.py:320
AppDir(app) == << app.destination_path, "/", app.name >>

\* deployer.py:107-125  where an environment_file string points
ResolveEnvFile(raw, app) ==
    CASE raw = "" -> ""
      [] raw = "-.env" -> "-/opt/apps/" \o app.name \o "/.env"
      [] OTHER -> raw

DefaultEnvPath(app) == "/etc/cloudhand/env/" \o app.name \o ".env"

\* deployer.py:144-150  the path an uploaded environment file is written to
UploadTarget(app) ==
    IF app.env_file # "" THEN ResolveEnvFile(app.env_file, app) ELSE DefaultEnvPath(app)

\* deployer.py:127-164  the EnvironmentFile= paths of the unit, in order
EnvFileDirectives(app) ==
    LET first == IF app.env_upload THEN << UploadTarget(app) >>
                 ELSE IF app.env_file # "" THEN << ResolveEnvFile(app.env_file, app) >>
                 ELSE << >>
        env_map_consumed == app.env_upload /\ app.env
    IN  IF app.env /\ ~env_map_consumed THEN Append(first, DefaultEnvPath(app)) ELSE first

\* deployer.py:131-159  what the one environment file written holds
EnvContent(app) ==
    IF app.env_upload
    THEN [ uploaded |-> TRUE, inline |-> app.env ]
    ELSE [ uploaded |-> FALSE, inline |-> TRUE ]
NoEnvContent == [ uploaded |-> FALSE, inline |-> FALSE ]

\* deployer.py:168-182  the unit file
UnitOf(app) == [ description |-> app.name, env_files |-> EnvFileDirectives(app) ]
NoUnit == [ description |-> "", env_files |-> << >> ]

\* deployer.py:233-246  the per-app site
SiteOf(app) ==
    [ port |-> IF app.ports = << >> THEN 0 ELSE app.ports[1],
      names |-> NormalizeServerNames(app.server_names), tls |-> FALSE ]
NoSite == [ port |-> 0, names |-> << >>, tls |-> FALSE ]

\* deployer.py:338-343
MaskOf(token) == IF token = << >> THEN << >> ELSE << token >>

\* deployer.py:358-360  the clone URL
CloneUrl(app, token) ==
    IF token # << >>
    THEN Replace(app.repo_url, << "https://" >>, << "https://" >> \o token \o << "@" >>)
    ELSE app.repo_url

\* mutant of FetchCmd: the fetch authenticates through a URL that holds the token
FetchCmdTokenUrl(app, token) ==
    << "git fetch " >> \o CloneUrl(app, token) \o << " && git reset --hard origin/", app.branch >>

\* deployer.py:346-352  the fetch command
FetchCmd(app, token) ==
    IF token # << >>
    THEN << "git -c http.extraheader=Authorization: Bearer " >> \o token
         \o << " fetch origin && git -c http.extraheader=Authorization: Bearer " >> \o token
         \o << " reset --hard origin/", app.branch >>
    ELSE << "git fetch origin && git reset --hard origin/", app.branch >>

\* the stages of deploy (319-375), _configure_systemd (166-186), _configure_nginx
\* (217-252) and _enable_https (188-215), in program order
Stages == << "apt_packages", "node_purge", "node_autoremove", "node_setup", "node_install",
             "test_dir", "git_fetch", "rm_dir", "mkdir_dest", "git_clone",
             "install", "build",
             "env_read", "env_mkdir", "env_upload", "env_chmod",
             "unit_upload", "daemon_reload", "enable", "restart",
             "nginx_check", "nginx_install", "nginx_mkdir", "nginx_enable", "nginx_start",
             "site_upload", "site_ln", "site_rm_default", "nginx_reload",
             "cert_check", "cert_install", "cert_run" >>

\* configure_combined_nginx (254-317) followed by _enable_https
CombinedStages == << "c_site_upload", "c_site_ln", "c_rm_default", "c_nginx_reload",
                     "cert_check", "cert_install", "cert_run" >>

StageIndex(list, st) == CHOOSE i \in 1..Len(list) : list[i] = st

\* upload_file calls; env_read is the local read of environment_file_upload
UploadStages == { "env_upload", "unit_upload", "site_upload", "c_site_upload" }
LocalStages == { "env_read" }

\* commands ending in `|| true`: the remote shell always exits 0
NeverFails == { "node_purge", "node_autoremove", "nginx_check", "nginx_enable",
                "nginx_start", "cert_check", "c_rm_default" }

\* the stage groups of a deploy, in the order deploy issues them
StageGroup(st) ==
    CASE st \in { "apt_packages", "node_purge", "node_autoremove", "node_setup",
                  "node_install" } -> 1
      [] st \in { "test_dir", "git_fetch", "rm_dir", "mkdir_dest", "git_clone" } -> 2
      [] st = "install" -> 3
      [] st = "build" -> 4
      [] st \in { "env_read", "env_mkdir", "env_upload", "env_chmod", "unit_upload",
                  "daemon_reload", "enable", "restart" } -> 5
      [] st \in { "nginx_check", "nginx_install", "nginx_mkdir", "nginx_enable",
                  "nginx_start", "site_upload", "site_ln", "site_rm_default",
                  "nginx_reload", "c_site_upload", "c_site_ln", "c_rm_default",
                  "c_nginx_reload" } -> 6
      [] OTHER -> 7

\* final_cmd of run (deployer.py:41) for each stage's command
CmdText(st, app, token) ==
    CASE st = "git_fetch" -> << "cd " >> \o AppDir(app) \o << " && " >> \o FetchCmd(app, token)
      [] st = "git_clone" -> << "git clone --branch ", app.branch, " " >>
                               \o CloneUrl(app, token) \o << " " >> \o AppDir(app)
      [] st \in { "install", "build" } -> << "cd " >> \o AppDir(app) \o << " && ", st >>
      [] st \in { "test_dir", "rm_dir" } -> << st, " " >> \o AppDir(app)
      [] OTHER -> << st >>

\* the mask argument deploy passes to run (353, 363); None elsewhere
CmdMask(st, token) ==
    IF st \in { "git_fetch", "git_clone" } THEN MaskOf(token) ELSE << >>

----------------------------------------------------------------------------
(* Remote hosts, as far as the deployer's commands read or change them *)

AppAbsent == [ dir |-> "absent", env_file |-> NoEnvContent, unit |-> NoUnit,
               enabled |-> FALSE, running |-> FALSE, site |-> NoSite,
               site_enabled |-> FALSE ]

\* a checkout left by an earlier deploy of an older commit
AppStale(app) == [ dir |-> "stale", env_file |-> EnvContent(app), unit |-> UnitOf(app),
                   enabled |-> TRUE, running |-> TRUE, site |-> NoSite,
                   site_enabled |-> FALSE ]

\* a host as the generated cloud-init leaves it (terraform_gen.py:37-44, 97-98)
HostFresh == [ node |-> "none", nginx |-> TRUE, certtool |-> "none", default_site |-> TRUE,
               combined |-> NoSite, combined_enabled |-> FALSE,
               apps |-> [ a \in AppNames |-> AppAbsent ] ]

\* a host that was deployed to before, from another image
HostUsed == [ node |-> "distro", nginx |-> FALSE, certtool |-> "certbot",
              default_site |-> FALSE, combined |-> NoSite, combined_enabled |-> FALSE,
              apps |-> [ a \in AppNames |-> AppStale(AppOf(a)) ] ]

\* a host where an interrupted clone left a directory that is no git checkout
HostPartial == [ HostFresh EXCEPT !.apps = [ a \in AppNames |->
                                               [ AppAbsent EXCEPT !.dir = "nongit" ] ],
                                  !.certtool = "certbox" ]

\* commands whose exit code the host state decides: `test -d` (345) without the
\* directory, git fetch (353) in a directory that is no checkout
StateFails(st, h, app) ==
    \/ st = "test_dir" /\ h.apps[app.name].dir = "absent"
    \/ st = "git_fetch" /\ h.apps[app.name].dir \notin { "stale", "synced" }

\* deployer.py:256-262, 286-293  the combined site of the apps with ports
Candidates(apps) == SelectSeq(apps, LAMBDA a : AppOf(a).ports # << >>)
NameHasUi(n) == n \in { "ui" }
RootApp(cands) ==
    IF \E i \in 1..Len(cands) : NameHasUi(cands[i])
    THEN cands[CHOOSE i \in 1..Len(cands) :
                 NameHasUi(cands[i]) /\ \A j \in 1..(i - 1) : ~NameHasUi(cands[j])]
    ELSE cands[1]
RECURSIVE AllServerNames(_)
AllServerNames(cands) ==
    IF cands = << >> THEN << >>
    ELSE AppOf(Head(cands)).server_names \o AllServerNames(Tail(cands))
CombinedNames(apps) == NormalizeServerNames(AllServerNames(Candidates(apps)))
CombinedHttps(apps) ==
    \E i \in 1..Len(Candidates(apps)) : AppOf(Candidates(apps)[i]).https
CombinedSite(apps) ==
    [ port |-> AppOf(RootApp(Candidates(apps))).ports[1],
      names |-> CombinedNames(apps), tls |-> FALSE ]

\* the effect of a stage's command or upload that exited 0
HostAfter(st, h, app, apps) ==
    LET a == app.name
    IN  CASE st = "node_purge" -> [ h EXCEPT !.node = "none" ]
          [] st = "node_install" -> [ h EXCEPT !.node = "v20" ]
          [] st = "git_fetch" -> [ h EXCEPT !.apps[a].dir = "synced" ]
          [] st = "rm_dir" -> [ h EXCEPT !.apps[a].dir = "absent" ]
          [] st = "git_clone" -> [ h EXCEPT !.apps[a].dir = "synced" ]
          [] st = "env_upload" -> [ h EXCEPT !.apps[a].env_file = EnvContent(app) ]
          [] st = "unit_upload" -> [ h EXCEPT !.apps[a].unit = UnitOf(app) ]
          [] st = "enable" -> [ h EXCEPT !.apps[a].enabled = TRUE ]
          [] st = "restart" -> [ h EXCEPT !.apps[a].running = TRUE ]
          [] st = "nginx_install" -> [ h EXCEPT !.nginx = TRUE, !.default_site = TRUE ]
          [] st = "site_upload" -> [ h EXCEPT !.apps[a].site = SiteOf(app) ]
          [] st = "site_ln" -> [ h EXCEPT !.apps[a].site_enabled = TRUE ]
          [] st \in { "site_rm_default", "c_rm_default" } -> [ h EXCEPT !.default_site = FALSE ]
          [] st = "cert_install" -> [ h EXCEPT !.certtool = "certbot" ]
          [] st = "cert_run" /\ apps = << >> -> [ h EXCEPT !.apps[a].site.tls = TRUE ]
          [] st = "cert_run" /\ apps # << >> -> [ h EXCEPT !.combined.tls = TRUE ]
          [] st = "c_site_upload" -> [ h EXCEPT !.combined = CombinedSite(apps) ]
          [] st = "c_site_ln" -> [ h EXCEPT !.combined_enabled = TRUE ]
          [] OTHER -> h

\* mutant of CertWanted: the certificate is set up whatever the server names are
CertWantedAnyNames(https, server_names) == https

\* deployer.py:251-252, 316-317 with 188-192  _enable_https is called when https
\* is set and goes past its early return when the normalized names are not empty
CertWanted(https, server_names) ==
    https /\ NormalizeServerNames(server_names) # << >>

\* whether deploy(app, configure_nginx) issues the stage, given the host's answers
\* to `command -v nginx` (222) and `command -v certbox || command -v certbot` (195)
Wanted(st, app, configure_nginx, h) ==
    LET routed == configure_nginx /\ app.ports # << >>
        tls == routed /\ CertWanted(app.https, app.server_names)
    IN  CASE st = "apt_packages" -> app.pkgs
          [] st \in { "node_purge", "node_autoremove", "node_setup", "node_install" } -> app.nodejs
          [] st = "test_dir" -> TRUE
          [] st \in { "git_fetch", "rm_dir", "mkdir_dest", "git_clone" } -> FALSE
          [] st = "install" -> app.install
          [] st = "build" -> app.build
          [] st = "env_read" -> app.env_upload
          [] st \in { "env_mkdir", "env_upload", "env_chmod" } -> app.env_upload \/ app.env
          [] st \in { "unit_upload", "daemon_reload", "enable", "restart" } -> TRUE
          [] st = "nginx_install" -> routed /\ ~h.nginx
          [] st \in { "nginx_check", "nginx_mkdir", "nginx_enable", "nginx_start",
                      "site_upload", "site_ln", "site_rm_default", "nginx_reload" } -> routed
          [] st = "cert_install" -> tls /\ h.certtool = "none"
          [] st \in { "cert_check", "cert_run" } -> tls
          [] OTHER -> FALSE

\* configure_combined_nginx(apps): the same, for the combined site
CombinedWanted(st, apps, h) ==
    LET tls == Candidates(apps) # << >>
               /\ CertWanted(CombinedHttps(apps), AllServerNames(Candidates(apps)))
    IN  CASE st = "cert_install" -> tls /\ h.certtool = "none"
          [] st \in { "cert_check", "cert_run" } -> tls
          [] OTHER -> Candidates(apps) # << >>

\* the first stage at or after position i that is issued, "end" when none is
NextWanted(i, app, configure_nginx, h, apps) ==
    LET list == IF apps = << >> THEN Stages ELSE CombinedStages
        want(j) == IF apps = << >> THEN Wanted(list[j], app, configure_nginx, h)
                   ELSE CombinedWanted(list[j], apps, h)
        cand == { j \in i..Len(list) : want(j) }
    IN  IF cand = { } THEN "end"
        ELSE list[CHOOSE j \in cand : \A k \in cand : j <= k]

\* mutant of SuccStage: after a successful fetch the install and build are skipped
SuccStageFetchSkipsBuild(st, app, configure_nginx, h, apps) ==
    CASE apps # << >> ->
           NextWanted(StageIndex(CombinedStages, st) + 1, app, configure_nginx, h, apps)
      [] apps = << >> /\ st = "test_dir" -> "git_fetch"
      [] apps = << >> /\ st = "git_fetch" ->
           NextWanted(StageIndex(Stages, "env_read"), app, configure_nginx, h, apps)
      [] apps = << >> /\ st = "rm_dir" -> "mkdir_dest"
      [] apps = << >> /\ st = "mkdir_dest" -> "git_clone"
      [] OTHER -> NextWanted(StageIndex(Stages, st) + 1, app, configure_nginx, h, apps)

\* the stage after st when st succeeded
SuccStage(st, app, configure_nginx, h, apps) ==
    CASE apps # << >> ->
           NextWanted(StageIndex(CombinedStages, st) + 1, app, configure_nginx, h, apps)
      [] apps = << >> /\ st = "test_dir" -> "git_fetch"
      [] apps = << >> /\ st = "git_fetch" ->
           NextWanted(StageIndex(Stages, "install"), app, configure_nginx, h, apps)
      [] apps = << >> /\ st = "rm_dir" -> "mkdir_dest"
      [] apps = << >> /\ st = "mkdir_dest" -> "git_clone"
      [] OTHER -> NextWanted(StageIndex(Stages, st) + 1, app, configure_nginx, h, apps)

\* mutant of CaughtStages: only the directory test is inside the try block
CaughtStagesTestOnly == { "test_dir" }

\* deployer.py:344-356  the stages inside deploy's try block: `except Exception`
\* catches whatever run raised there and goes on with rm -rf and clone
CaughtStages == { "test_dir", "git_fetch" }

\* deployer.py:42-45  display_cmd
RECURSIVE MaskCmd(_, _)
MaskCmd(cmd, mask) ==
    IF mask = << >> THEN cmd
    ELSE MaskCmd(Replace(cmd, Head(mask), << "***" >>), Tail(mask))

\* deployer.py:54  the message of the exception run raises on a non-zero exit code
ErrorText(final_cmd, display_cmd) == final_cmd

NoError == [ type |-> "", text |-> << >> ]

----------------------------------------------------------------------------
(* ServerDeployer.run / upload_file executing one stage *)

\* deployer.py:38, 58  the liveness check: a connection is needed
NeedConnect(st) == st \notin LocalStages /\ transport # "active"

\* mutant of ConnectResult: the loop makes one attempt too many
ConnectResultOneMore(need, kfail) ==
    [ connected |-> ~need \/ kfail <= ConnectAttempts,
      attempts |-> IF ~need THEN 0 ELSE kfail + 1,
      sleeps |-> IF need THEN kfail * SleepSeconds ELSE 0 ]

\* deployer.py:28-35  connect() with kfail failing attempts: it returns when an
\* attempt succeeds and raises after ConnectAttempts failures
ConnectResult(need, kfail) ==
    [ connected |-> ~need \/ kfail < ConnectAttempts,
      attempts |-> IF ~need THEN 0
                   ELSE IF kfail < ConnectAttempts THEN kfail + 1 ELSE ConnectAttempts,
      sleeps |-> IF need THEN kfail * SleepSeconds ELSE 0 ]

\* deployer.py:49-54  the exit code is non-zero
NonZero(st, envfail) ==
    \/ st \notin NeverFails /\ envfail
    \/ StateFails(st, hosts[cur_ip], AppOf(cur_app))

\* the call returned normally
StepOk(st, envfail, kfail) ==
    ConnectResult(NeedConnect(st), kfail).connected /\ ~NonZero(st, envfail)

\* deployer.py:37-63 (with connect, 28-35) for the command or upload of stage st:
\* the liveness check, up to ConnectAttempts connection attempts of which kfail
\* fail, the log line, the command, and the exception on a non-zero exit code
\* (envfail: the environment makes the command or upload fail).  apps is the
\* argument of configure_combined_nginx, << >> inside deploy.
RunCore(st, envfail, kfail, apps) ==
    LET app == AppOf(cur_app)
        h == hosts[cur_ip]
        local == st \in LocalStages
        isrun == st \notin (UploadStages \cup LocalStages)
        need == NeedConnect(st)
        conn == ConnectResult(need, kfail)
        final_cmd == CmdText(st, app, gh_token)
        display_cmd == MaskCmd(final_cmd, CmdMask(st, gh_token))
        ok == StepOk(st, envfail, kfail)
        exc == IF ~conn.connected
               THEN [ type |-> "ConnectionError", text |-> << "Could not connect" >> ]
               ELSE IF local
               THEN [ type |-> "FileNotFoundError", text |-> << "Environment file not found" >> ]
               ELSE IF isrun
               THEN [ type |-> "Exception", text |-> ErrorText(final_cmd, display_cmd) ]
               ELSE [ type |-> "IOError", text |-> << "sftp" >> ]
    IN  /\ need \/ kfail = 0
        /\ transport' = IF need /\ conn.connected THEN "active" ELSE transport
        /\ attempts' = conn.attempts
        /\ sleeps' = conn.sleeps
        /\ last_log' = IF conn.connected /\ isrun THEN display_cmd ELSE last_log
        /\ cmd_log' = IF conn.connected /\ ~local
                      THEN Append(cmd_log, [ ip |-> cur_ip, app |-> cur_app, stage |-> st,
                                             ok |-> ok, dn |-> Len(deploys) ])
                      ELSE cmd_log
        /\ raised' = IF ok THEN raised ELSE exc
        /\ hosts' = IF ok /\ ~envfail
                    THEN [ hosts EXCEPT ![cur_ip] = HostAfter(st, h, app, apps) ]
                    ELSE hosts

\* mutant of StageAfter: the outcome of the command is not looked at
StageAfterIgnoringFailure(st, ok, h2, apps) ==
    SuccStage(st, AppOf(cur_app), cfg_nginx, h2, apps)

\* where deploy (319-375) or configure_combined_nginx (254-317) goes after the
\* stage it is at: the next stage, the except branch, or out with the exception
StageAfter(st, ok, h2, apps) ==
    IF ok THEN SuccStage(st, AppOf(cur_app), cfg_nginx, h2, apps)
    ELSE IF st \in CaughtStages /\ apps = << >> THEN "rm_dir"
    ELSE "raised"

\* one stage of the running deploy / configure_combined_nginx
DStep(envfail, kfail, apps) ==
    /\ RunCore(dpc, envfail, kfail, apps)
    /\ dpc' = StageAfter(dpc, StepOk(dpc, envfail, kfail), hosts'[cur_ip], apps)

\* connection outcomes apply_plan's model draws from: first attempt succeeds,
\* the last one does, or none does
ApplyConnChoices == { 0, ConnectAttempts - 1, ConnectAttempts }

----------------------------------------------------------------------------
(* The state of the program's other entry points while they are not running *)

NoKeys == [ priv |-> 0, pub |-> 0 ]

Callers == 1..MaxCallers

KeysIdle ==
    /\ backend = "local"
    /\ kpc = [ p \in Callers |-> "done" ]
    /\ kkey = [ p \in Callers |-> 0 ]
    /\ kret = [ p \in Callers |-> NoKeys ]
    /\ kmade = 0

CompileIdle ==
    /\ graph = [ nodes |-> << >>, edges |-> << >> ]
    /\ cprovider = "hetzner"
    /\ cout = << >>

\* terraform_gen.py:172-233  the files generate writes, and one it does not
FileSet == { "backend.tf", "providers.tf", "variables.tf", "network.tf", "servers.tf",
             "outputs.tf" }
DirFiles == FileSet \cup { "main.tf" }

AbsentFile == [ present |-> FALSE, blocks |-> << >> ]
EmptyDir == [ f \in DirFiles |-> AbsentFile ]

GenIdle ==
    /\ gdir = EmptyDir
    /\ gref = EmptyDir
    /\ gspec = [ provider |-> "hetzner", networks |-> << >>, instances |-> << >> ]
    /\ glast = "none"
    /\ gops = 0

\* adapters/__init__.py:84-90  the listings scan fetches, in order
Listings == << "servers", "networks", "volumes", "load_balancers", "firewalls",
               "primary_ips", "floating_ips" >>

NoGraph == [ nodes |-> << >>, edges |-> << >> ]
NoItems == [ l \in 1..Len(Listings) |-> << >> ]

ScanIdle ==
    /\ stoken = TRUE
    /\ sapi = [ l \in 1..Len(Listings) |-> << << >> >> ]
    /\ spc = "idle"
    /\ sli = 1
    /\ spg = 1
    /\ sitems = NoItems
    /\ sreqs = 0
    /\ sfailed = FALSE
    /\ scan_json = NoGraph
    /\ scan_old = NoGraph
    /\ sout = [ kind |-> "none", graph |-> NoGraph, err |-> "" ]

\* no combined site written
NoConf == [ called |-> FALSE, written |-> FALSE, root_port |-> 0, locations |-> << >>,
            server_names |-> << >>, cert |-> FALSE ]

RouteIdle ==
    /\ rapps = << >>
    /\ rconf = NoConf

Pages == 1..MaxPages

\* a response with an empty list and no next-page cursor
LastEmpty == [ status |-> 200, is_list |-> TRUE, chunk |-> << >>, next_page |-> 0 ]

PageIdle ==
    /\ papi = [ p \in Pages |-> LastEmpty ]
    /\ ppage = 1
    /\ pitems = << >>
    /\ pseen = { }
    /\ prepeat = FALSE
    /\ ppc = "done"

NoSpecFile == [ present |-> FALSE, provider |-> "", region |-> "", networks |-> << >>,
                instances |-> << >> ]
NoScanFile == [ present |-> FALSE, nodes |-> << >>, edges |-> << >> ]
NoPlan == [ present |-> FALSE, new_spec |-> NoSpecFile, from_sync |-> FALSE ]

SyncIdle ==
    /\ wspec_json = NoSpecFile
    /\ wscan_json = NoScanFile
    /\ wplan = NoPlan
    /\ wdeploys = << >>
    /\ wlast = "none"
    /\ wops = 0

MoreIdle == RouteIdle /\ PageIdle /\ SyncIdle

LibIdle == KeysIdle /\ CompileIdle /\ GenIdle /\ ScanIdle /\ MoreIdle

----------------------------------------------------------------------------
(* apply_plan, step by step *)

IsCombined(mode) == mode \in { "combined", "single", "shared" }

Finish(o) == /\ pc' = "done"
             /\ outcome' = o

\* apply.py:22-31  load the plan, check new_spec, validate it
LoadPlan ==
    /\ pc = "load"
    /\ IF ~plan.exists THEN Finish(Raised("FileNotFoundError", 0)) /\ UNCHANGED new_spec
       ELSE IF Falsy(plan.new_spec) THEN Finish(Raised("ValueError", 0)) /\ UNCHANGED new_spec
       ELSE IF ~Validates(plan.new_spec)
            THEN Finish(Raised("ValidationError", 0)) /\ UNCHANGED new_spec
       ELSE /\ new_spec' = ModelValidate(plan.new_spec)
            /\ pc' = "persist"
            /\ UNCHANGED outcome
    /\ UNCHANGED << plan, nginx_mode, gh_token, spec_json, tf_files, key_store, priv_key,
                    tool_log, server_ips, inst_i, app_i, deploys, deployed_apps, dpc,
                    cur_app, cur_ip, cfg_nginx, transport, attempts, sleeps, cmd_log,
                    last_log, raised, hosts, deployOnlyVars >>
    /\ UNCHANGED libVars

\* apply.py:33-36  write spec.json
PersistSpec ==
    /\ pc = "persist"
    /\ spec_json' = new_spec
    /\ pc' = "generate"
    /\ UNCHANGED << plan, nginx_mode, gh_token, new_spec, tf_files, key_store, priv_key,
                    tool_log, outcome, server_ips, inst_i, app_i, deploys, deployed_apps,
                    dpc, cur_app, cur_ip, cfg_nginx, transport, attempts, sleeps, cmd_log,
                    last_log, raised, hosts, deployOnlyVars >>
    /\ UNCHANGED libVars

\* apply.py:39-41  get_generator (terraform_gen.py:241-245) and generate
Generate ==
    /\ pc = "generate"
    /\ IF new_spec.provider \notin GENERATOR_BY_PROVIDER
       THEN Finish(Raised("ValueError", 0)) /\ UNCHANGED tf_files
       ELSE /\ tf_files' = GenerateFiles(new_spec)
            /\ pc' = "ssh_key"
            /\ UNCHANGED outcome
    /\ UNCHANGED << plan, nginx_mode, gh_token, new_spec, spec_json, key_store, priv_key,
                    tool_log, server_ips, inst_i, app_i, deploys, deployed_apps, dpc,
                    cur_app, cur_ip, cfg_nginx, transport, attempts, sleeps, cmd_log,
                    last_log, raised, hosts, deployOnlyVars >>
    /\ UNCHANGED libVars

\* secrets.py:64-88  the key files are read when both exist, else a new pair is written
GetOrCreateKey(store) ==
    IF store.priv # 0 /\ store.pub # 0 THEN store
    ELSE [ priv |-> 1 + (IF store.priv > store.pub THEN store.priv ELSE store.pub),
           pub |-> 1 + (IF store.priv > store.pub THEN store.priv ELSE store.pub) ]

\* apply.py:45  obtain the project keypair
SshKey ==
    /\ pc = "ssh_key"
    /\ \E fails \in BOOLEAN :
         IF fails
         THEN Finish(Raised("RuntimeError", 0)) /\ UNCHANGED << key_store, priv_key >>
         ELSE /\ key_store' = GetOrCreateKey(key_store)
              /\ priv_key' = key_store'.priv
              /\ pc' = "which"
              /\ UNCHANGED outcome
    /\ UNCHANGED << plan, nginx_mode, gh_token, new_spec, spec_json, tf_files, tool_log,
                    server_ips, inst_i, app_i, deploys, deployed_apps, dpc, cur_app,
                    cur_ip, cfg_nginx, transport, attempts, sleeps, cmd_log, last_log,
                    raised, hosts, deployOnlyVars >>
    /\ UNCHANGED libVars

\* apply.py:48-50  shutil.which(terraform_bin)
FindBinary ==
    /\ pc = "which"
    /\ \E found \in BOOLEAN :
         IF found THEN pc' = "init" /\ UNCHANGED outcome
         ELSE Finish(Raised("FileNotFoundError", 0))
    /\ UNCHANGED << plan, nginx_mode, gh_token, new_spec, spec_json, tf_files, key_store,
                    priv_key, tool_log, server_ips, inst_i, app_i, deploys, deployed_apps,
                    dpc, cur_app, cur_ip, cfg_nginx, transport, attempts, sleeps, cmd_log,
                    last_log, raised, hosts, deployOnlyVars >>
    /\ UNCHANGED libVars

\* mutant of InitResult: init's exit code is not checked
InitResultIgnored(code) == NoOutcome

\* apply.py:57  subprocess.run([... "init" ...], check=True): a non-zero exit code
\* raises CalledProcessError (which carries the code)
InitResult(code) ==
    IF code # 0 THEN Raised("CalledProcessError", code) ELSE NoOutcome

TfInit ==
    /\ pc = "init"
    /\ \E code \in ExitCodes :
         /\ tool_log' = Append(tool_log, [ tool |-> "init", code |-> code ])
         /\ IF InitResult(code) # NoOutcome THEN Finish(InitResult(code))
            ELSE pc' = "apply" /\ UNCHANGED outcome
    /\ UNCHANGED << plan, nginx_mode, gh_token, new_spec, spec_json, tf_files, key_store,
                    priv_key, server_ips, inst_i, app_i, deploys, deployed_apps, dpc,
                    cur_app, cur_ip, cfg_nginx, transport, attempts, sleeps, cmd_log,
                    last_log, raised, hosts, deployOnlyVars >>
    /\ UNCHANGED libVars

\* mutant of ApplyResult: the exit code of apply is not looked at
ApplyResultIgnored(code) == NoOutcome

\* apply.py:63-65  a non-zero exit code of apply is returned
ApplyResult(code) ==
    IF code # 0 THEN Returned(code) ELSE NoOutcome

TfApply ==
    /\ pc = "apply"
    /\ \E code \in ExitCodes :
         /\ tool_log' = Append(tool_log, [ tool |-> "apply", code |-> code ])
         /\ IF ApplyResult(code) # NoOutcome THEN Finish(ApplyResult(code))
            ELSE pc' = "output" /\ UNCHANGED outcome
    /\ UNCHANGED << plan, nginx_mode, gh_token, new_spec, spec_json, tf_files, key_store,
                    priv_key, server_ips, inst_i, app_i, deploys, deployed_apps, dpc,
                    cur_app, cur_ip, cfg_nginx, transport, attempts, sleeps, cmd_log,
                    last_log, raised, hosts, deployOnlyVars >>
    /\ UNCHANGED libVars

\* apply.py:68-70  check_output([... "output", "-json"]) and the server_ips value
TfOutput ==
    /\ pc = "output"
    /\ \E code \in ExitCodes :
         /\ tool_log' = Append(tool_log, [ tool |-> "output", code |-> code ])
         /\ IF code # 0
            THEN Finish(Raised("CalledProcessError", code)) /\ UNCHANGED server_ips
            ELSE /\ \E m \in IpMaps : server_ips' = m
                 /\ pc' = "loop"
                 /\ UNCHANGED outcome
    /\ UNCHANGED << plan, nginx_mode, gh_token, new_spec, spec_json, tf_files, key_store,
                    priv_key, inst_i, app_i, deploys, deployed_apps, dpc, cur_app,
                    cur_ip, cfg_nginx, transport, attempts, sleeps, cmd_log, last_log,
                    raised, hosts, deployOnlyVars >>
    /\ UNCHANGED libVars

\* apply.py:77  the instances the loop skips
Skipped(inst, ips) == ips[inst.name] = "" \/ inst.workloads = << >>

\* mutant of AddressOf: the first resolved address is reused for every instance
AddressOfFirst(inst, ips) ==
    IF ips[NameWeb] # "" THEN ips[NameWeb] ELSE ips[inst.name]

\* apply.py:76, 80  the address the instance's ServerDeployer is built with
AddressOf(inst, ips) == ips[inst.name]

\* apply.py:75-80 and 100  the instance loop: skip, or build a ServerDeployer
LoopInstance ==
    /\ pc = "loop"
    /\ IF inst_i > Len(new_spec.instances)
       THEN Finish(Returned(0))
            /\ UNCHANGED << inst_i, app_i, deployed_apps, cur_ip, transport >>
       ELSE LET inst == new_spec.instances[inst_i] IN
            IF Skipped(inst, server_ips)
            THEN /\ inst_i' = inst_i + 1
                 /\ UNCHANGED << pc, outcome, app_i, deployed_apps, cur_ip, transport >>
            ELSE /\ cur_ip' = AddressOf(inst, server_ips)
                 /\ transport' = "none"
                 /\ app_i' = 1
                 /\ deployed_apps' = << >>
                 /\ pc' = "workloads"
                 /\ UNCHANGED << outcome, inst_i >>
    /\ UNCHANGED << plan, nginx_mode, gh_token, new_spec, spec_json, tf_files, key_store,
                    priv_key, tool_log, server_ips, deploys, dpc, cur_app, cfg_nginx,
                    attempts, sleeps, cmd_log, last_log, raised, hosts, deployOnlyVars >>
    /\ UNCHANGED libVars

\* mutant of ConfigureNginxArg: deploy always configures the per-app site
ConfigureNginxAlways(mode) == TRUE

\* apply.py:85-98  the configure_nginx argument of deploy
ConfigureNginxArg(mode) == ~IsCombined(mode)

\* apply.py:87-98  the workload loop: call deploy for the next workload; after the
\* last one, configure_combined_nginx in combined mode, then the next instance
NextWorkload ==
    /\ pc = "workloads"
    /\ LET inst == new_spec.instances[inst_i] IN
       IF app_i <= Len(inst.workloads)
       THEN /\ cur_app' = inst.workloads[app_i]
            /\ cfg_nginx' = ConfigureNginxArg(nginx_mode)
            /\ deploys' = Append(deploys, [ ip |-> cur_ip, app |-> inst.workloads[app_i],
                                            configure_nginx |-> ConfigureNginxArg(nginx_mode) ])
            /\ dpc' = NextWanted(1, AppOf(inst.workloads[app_i]), ConfigureNginxArg(nginx_mode),
                                 hosts[cur_ip], << >>)
            /\ pc' = "deploying"
            /\ UNCHANGED inst_i
       ELSE IF IsCombined(nginx_mode) /\ deployed_apps # << >>
               /\ Candidates(deployed_apps) # << >>
       THEN /\ dpc' = NextWanted(1, AppOf(cur_app), cfg_nginx, hosts[cur_ip], deployed_apps)
            /\ pc' = "combined"
            /\ UNCHANGED << cur_app, cfg_nginx, deploys, inst_i >>
       ELSE /\ inst_i' = inst_i + 1
            /\ pc' = "loop"
            /\ UNCHANGED << cur_app, cfg_nginx, deploys, dpc >>
    /\ UNCHANGED << plan, nginx_mode, gh_token, new_spec, spec_json, tf_files, key_store,
                    priv_key, tool_log, outcome, server_ips, app_i, deployed_apps, cur_ip,
                    transport, attempts, sleeps, cmd_log, last_log, raised, hosts,
                    deployOnlyVars >>
    /\ UNCHANGED libVars

\* apply.py:90-91, 98  one command or upload of the running deploy(app)
DeployStep ==
    /\ pc = "deploying"
    /\ \E envfail \in BOOLEAN, kfail \in ApplyConnChoices : DStep(envfail, kfail, << >>)
    /\ IF dpc' = "raised"
       THEN Finish(Raised(raised'.type, 0)) /\ UNCHANGED << app_i, deployed_apps >>
       ELSE IF dpc' = "end"
       THEN /\ pc' = "workloads"
            /\ app_i' = app_i + 1
            /\ deployed_apps' = IF IsCombined(nginx_mode) THEN Append(deployed_apps, cur_app)
                                ELSE deployed_apps
            /\ UNCHANGED outcome
       ELSE UNCHANGED << pc, outcome, app_i, deployed_apps >>
    /\ UNCHANGED << plan, nginx_mode, gh_token, new_spec, spec_json, tf_files, key_store,
                    priv_key, tool_log, server_ips, inst_i, deploys, cur_app, cur_ip,
                    cfg_nginx, deployOnlyVars >>
    /\ UNCHANGED libVars

\* apply.py:92-93  one command or upload of configure_combined_nginx(deployed_apps)
CombinedStep ==
    /\ pc = "combined"
    /\ \E envfail \in BOOLEAN, kfail \in ApplyConnChoices :
         DStep(envfail, kfail, deployed_apps)
    /\ IF dpc' = "raised"
       THEN Finish(Raised(raised'.type, 0)) /\ UNCHANGED inst_i
       ELSE IF dpc' = "end"
       THEN pc' = "loop" /\ inst_i' = inst_i + 1 /\ UNCHANGED outcome
       ELSE UNCHANGED << pc, outcome, inst_i >>
    /\ UNCHANGED << plan, nginx_mode, gh_token, new_spec, spec_json, tf_files, key_store,
                    priv_key, tool_log, server_ips, app_i, deploys, deployed_apps, cur_app,
                    cur_ip, cfg_nginx, deployOnlyVars >>
    /\ UNCHANGED libVars

\* a pair persisted by an earlier run
OldKeys == [ priv |-> 7, pub |-> 7 ]

InitApply ==
    /\ plan \in Plans
    /\ nginx_mode \in { "per-app", "combined", "shared" }
    /\ gh_token \in { << >>, << "ghp_s3cret" >> }
    /\ pc = "load"
    /\ new_spec = NoSpec
    /\ spec_json = OldSpec
    /\ tf_files = GenerateFiles(OldSpec)
    /\ key_store \in { NoKeys, OldKeys }
    /\ priv_key = 0
    /\ tool_log = << >>
    /\ outcome = NoOutcome
    /\ server_ips = NoIps
    /\ inst_i = 1
    /\ app_i = 1
    /\ deploys = << >>
    /\ deployed_apps = << >>
    /\ dpc = "idle"
    /\ cur_app = "ui"
    /\ cur_ip = "10.0.0.9"
    /\ cfg_nginx = TRUE
    /\ transport = "none"
    /\ attempts = 0
    /\ sleeps = 0
    /\ cmd_log = << >>
    /\ last_log = << >>
    /\ raised = NoError
    /\ hosts \in { [ ip \in IPs |-> HostFresh ], [ ip \in IPs |-> HostUsed ] }
    /\ faulty = { }
    /\ runs = 0
    /\ prev_ok = FALSE
    /\ host0 = HostFresh
    /\ LibIdle

NextApply ==
    \/ LoadPlan \/ PersistSpec \/ Generate \/ SshKey \/ FindBinary
    \/ TfInit \/ TfApply \/ TfOutput
    \/ LoopInstance \/ NextWorkload \/ DeployStep \/ CombinedStep

SpecApply == InitApply /\ [][NextApply]_vars

----------------------------------------------------------------------------
(* deploy(app) called repeatedly on one host, in an environment whose faults
   stay as they are while deploys succeed *)

DeployIp == "10.0.0.1"

FaultKinds == { Stages[i] : i \in 1..Len(Stages) } \cup { "connect" }
FaultSets == { { } } \cup { { f } : f \in FaultKinds }

\* the caller invokes deploy(app, configure_nginx) (deployer.py:319-320); after a
\* failed call the environment may have been repaired
CallDeploy ==
    /\ pc = "caller"
    /\ runs < MaxRuns
    /\ runs' = runs + 1
    /\ prev_ok' = (outcome.kind = "return")
    /\ outcome' = NoOutcome
    /\ deploys' = Append(deploys, [ ip |-> cur_ip, app |-> cur_app,
                                    configure_nginx |-> cfg_nginx ])
    /\ dpc' = NextWanted(1, AppOf(cur_app), cfg_nginx, hosts[cur_ip], << >>)
    /\ pc' = "deploying"
    /\ \E repaired \in BOOLEAN :
         faulty' = IF repaired /\ outcome.kind = "raise" THEN { } ELSE faulty
    /\ UNCHANGED << plan, nginx_mode, gh_token, new_spec, spec_json, tf_files, key_store,
                    priv_key, tool_log, server_ips, inst_i, app_i, deployed_apps, cur_app,
                    cur_ip, cfg_nginx, transport, attempts, sleeps, cmd_log, last_log,
                    raised, hosts, host0 >>
    /\ UNCHANGED libVars

\* one command or upload of the running deploy
DeployRun ==
    /\ pc = "deploying"
    /\ DStep(dpc \in faulty,
             IF NeedConnect(dpc) /\ "connect" \in faulty THEN ConnectAttempts ELSE 0,
             << >>)
    /\ IF dpc' = "raised" THEN Finish(Raised(raised'.type, 0))
       ELSE IF dpc' = "end" THEN pc' = "caller" /\ outcome' = Returned(0)
       ELSE UNCHANGED << pc, outcome >>
    /\ UNCHANGED << applyVars, gh_token, cur_app, cur_ip, cfg_nginx, deployOnlyVars >>
    /\ UNCHANGED libVars

\* the caller sees the exception of a failed deploy and may call again
CatchFailure ==
    /\ pc = "done"
    /\ outcome.kind = "raise"
    /\ pc' = "caller"
    /\ UNCHANGED << applyVars, gh_token, outcome, dpc, cur_app, cur_ip, cfg_nginx,
                    transport, attempts, sleeps, cmd_log, last_log, raised, hosts,
                    deployOnlyVars >>
    /\ UNCHANGED libVars

\* the SSH transport goes away between two commands (idle timeout, reboot)
TransportDies ==
    /\ transport = "active"
    /\ transport' = "dead"
    /\ UNCHANGED << applyVars, gh_token, pc, outcome, dpc, cur_app, cur_ip, cfg_nginx,
                    attempts, sleeps, cmd_log, last_log, raised, hosts, deployOnlyVars >>
    /\ UNCHANGED libVars

InitDeploy ==
    /\ plan = [ exists |-> FALSE, new_spec |-> RawNull ]
    /\ nginx_mode = "per-app"
    /\ gh_token = << "ghp_s3cret" >>
    /\ pc = "caller"
    /\ new_spec = NoSpec
    /\ spec_json = OldSpec
    /\ tf_files = GenerateFiles(OldSpec)
    /\ key_store = [ priv |-> 1, pub |-> 1 ]
    /\ priv_key = 1
    /\ tool_log = << >>
    /\ outcome = NoOutcome
    /\ server_ips = NoIps
    /\ inst_i = 1
    /\ app_i = 1
    /\ deploys = << >>
    /\ deployed_apps = << >>
    /\ dpc = "idle"
    /\ cur_app \in AppNames
    /\ cur_ip = DeployIp
    /\ cfg_nginx \in BOOLEAN
    /\ transport = "none"
    /\ attempts = 0
    /\ sleeps = 0
    /\ cmd_log = << >>
    /\ last_log = << >>
    /\ raised = NoError
    /\ host0 \in { HostFresh, HostUsed, HostPartial }
    /\ hosts = [ ip \in IPs |-> host0 ]
    /\ faulty \in FaultSets
    /\ runs = 0
    /\ prev_ok = FALSE
    /\ LibIdle

NextDeploy == CallDeploy \/ DeployRun \/ CatchFailure \/ TransportDies

SpecDeploy == InitDeploy /\ [][NextDeploy]_vars

----------------------------------------------------------------------------
(* One ServerDeployer session: a caller issuing run and upload_file calls *)

\* the commands and uploads the session's caller draws from
RunStages == { "git_clone", "restart", "nginx_check" }
SessionUploads == { "unit_upload" }

\* deployer.py:37-55  run(cmd, cwd, mask)
RunCmd ==
    /\ pc = "session"
    /\ runs < MaxCmds
    /\ \E st \in RunStages, envfail \in BOOLEAN, kfail \in 0..ConnectAttempts :
         /\ RunCore(st, envfail, kfail, << >>)
         /\ dpc' = st
         /\ outcome' = IF StepOk(st, envfail, kfail) THEN Returned(0)
                       ELSE Raised(raised'.type, 0)
    /\ runs' = runs + 1
    /\ UNCHANGED << applyVars, gh_token, pc, cur_app, cur_ip, cfg_nginx, faulty, prev_ok,
                    host0 >>
    /\ UNCHANGED libVars

\* deployer.py:57-63  upload_file(content, remote_path)
UploadFile ==
    /\ pc = "session"
    /\ runs < MaxCmds
    /\ \E st \in SessionUploads, envfail \in BOOLEAN, kfail \in 0..ConnectAttempts :
         /\ RunCore(st, envfail, kfail, << >>)
         /\ dpc' = st
         /\ outcome' = IF StepOk(st, envfail, kfail) THEN Returned(0)
                       ELSE Raised(raised'.type, 0)
    /\ runs' = runs + 1
    /\ UNCHANGED << applyVars, gh_token, pc, cur_app, cur_ip, cfg_nginx, faulty, prev_ok,
                    host0 >>
    /\ UNCHANGED libVars

InitRun ==
    /\ plan = [ exists |-> FALSE, new_spec |-> RawNull ]
    /\ nginx_mode = "per-app"
    /\ gh_token \in { << >>, << "ghp_s3cret" >> }
    /\ pc = "session"
    /\ new_spec = NoSpec
    /\ spec_json = OldSpec
    /\ tf_files = GenerateFiles(OldSpec)
    /\ key_store = [ priv |-> 1, pub |-> 1 ]
    /\ priv_key = 1
    /\ tool_log = << >>
    /\ outcome = NoOutcome
    /\ server_ips = NoIps
    /\ inst_i = 1
    /\ app_i = 1
    /\ deploys = << >>
    /\ deployed_apps = << >>
    /\ dpc = "idle"
    /\ cur_app = "ui"
    /\ cur_ip = DeployIp
    /\ cfg_nginx = TRUE
    /\ transport = "none"
    /\ attempts = 0
    /\ sleeps = 0
    /\ cmd_log = << >>
    /\ last_log = << >>
    /\ raised = NoError
    /\ host0 = HostFresh
    /\ hosts = [ ip \in IPs |-> host0 ]
    /\ faulty = { }
    /\ runs = 0
    /\ prev_ok = FALSE
    /\ LibIdle

NextRun == RunCmd \/ UploadFile \/ TransportDies

SpecRun == InitRun /\ [][NextRun]_vars

\* apply_plan, deploy and the deployer session at rest
ProgIdle ==
    /\ plan = [ exists |-> FALSE, new_spec |-> RawNull ]
    /\ nginx_mode = "per-app"
    /\ gh_token = << >>
    /\ pc = "idle"
    /\ new_spec = NoSpec
    /\ spec_json = OldSpec
    /\ tf_files = GenerateFiles(OldSpec)
    /\ key_store = NoKeys
    /\ priv_key = 0
    /\ tool_log = << >>
    /\ outcome = NoOutcome
    /\ server_ips = NoIps
    /\ inst_i = 1
    /\ app_i = 1
    /\ deploys = << >>
    /\ deployed_apps = << >>
    /\ dpc = "idle"
    /\ cur_app = "ui"
    /\ cur_ip = DeployIp
    /\ cfg_nginx = TRUE
    /\ transport = "none"
    /\ attempts = 0
    /\ sleeps = 0
    /\ cmd_log = << >>
    /\ last_log = << >>
    /\ raised = NoError
    /\ host0 = HostFresh
    /\ hosts = [ ip \in IPs |-> host0 ]
    /\ faulty = { }
    /\ runs = 0
    /\ prev_ok = FALSE

progButKeys == << plan, nginx_mode, gh_token, pc, new_spec, spec_json, tf_files,
                  priv_key, tool_log, outcome, server_ips, inst_i, app_i, deploys,
                  deployed_apps, dpc, cur_app, cur_ip, cfg_nginx, transport, attempts,
                  sleeps, cmd_log, last_log, raised, hosts, faulty, runs, prev_ok,
                  host0 >>

----------------------------------------------------------------------------
(* get_or_create_project_ssh_key(project_id), called concurrently for one
   project id; key_store is the persisted key location for that project *)

\* secrets.py:70, 97  both parts of the key are present
HasKeys(store) == store.priv # 0 /\ store.pub # 0

\* secrets.py:70 / 94-101  look for a persisted key
KCheck(p) ==
    /\ kpc[p] = "check"
    /\ IF backend = "local"
       THEN /\ kpc' = [ kpc EXCEPT ![p] = IF HasKeys(key_store) THEN "read_priv"
                                         ELSE "generate" ]
            /\ UNCHANGED kret
       ELSE \E readfails \in BOOLEAN :
              IF ~readfails /\ HasKeys(key_store)
              THEN /\ kret' = [ kret EXCEPT ![p] = key_store ]
                   /\ kpc' = [ kpc EXCEPT ![p] = "done" ]
              ELSE /\ kpc' = [ kpc EXCEPT ![p] = "generate" ]
                   /\ UNCHANGED kret
    /\ UNCHANGED << progVars, moreVars, backend, kkey, kmade >>
    /\ UNCHANGED << compileVars, genVars, scanVars >>

\* secrets.py:71  priv_path.read_text()
KReadPriv(p) ==
    /\ kpc[p] = "read_priv"
    /\ kkey' = [ kkey EXCEPT ![p] = key_store.priv ]
    /\ kpc' = [ kpc EXCEPT ![p] = "read_pub" ]
    /\ UNCHANGED << progVars, moreVars, backend, kret, kmade >>
    /\ UNCHANGED << compileVars, genVars, scanVars >>

\* secrets.py:71  pub_path.read_text() and return
KReadPub(p) ==
    /\ kpc[p] = "read_pub"
    /\ kret' = [ kret EXCEPT ![p] = [ priv |-> kkey[p], pub |-> key_store.pub ] ]
    /\ kpc' = [ kpc EXCEPT ![p] = "done" ]
    /\ UNCHANGED << progVars, moreVars, backend, kkey, kmade >>
    /\ UNCHANGED << compileVars, genVars, scanVars >>

\* secrets.py:74-78 / 104-108  RSAKey.generate: a key no earlier call produced
KGenerate(p) ==
    /\ kpc[p] = "generate"
    /\ kmade' = kmade + 1
    /\ kkey' = [ kkey EXCEPT ![p] = kmade + 1 ]
    /\ kpc' = [ kpc EXCEPT ![p] = IF backend = "local" THEN "write_priv" ELSE "save" ]
    /\ UNCHANGED << progVars, moreVars, backend, kret >>
    /\ UNCHANGED << compileVars, genVars, scanVars >>

\* secrets.py:81  priv_path.write_text(private_key)
KWritePriv(p) ==
    /\ kpc[p] = "write_priv"
    /\ key_store' = [ key_store EXCEPT !.priv = kkey[p] ]
    /\ kpc' = [ kpc EXCEPT ![p] = "write_pub" ]
    /\ UNCHANGED << progButKeys, moreVars, backend, kkey, kret, kmade >>
    /\ UNCHANGED << compileVars, genVars, scanVars >>

\* secrets.py:82-88  pub_path.write_text(public_key) and return
KWritePub(p) ==
    /\ kpc[p] = "write_pub"
    /\ key_store' = [ key_store EXCEPT !.pub = kkey[p] ]
    /\ kret' = [ kret EXCEPT ![p] = [ priv |-> kkey[p], pub |-> kkey[p] ] ]
    /\ kpc' = [ kpc EXCEPT ![p] = "done" ]
    /\ UNCHANGED << progButKeys, moreVars, backend, kkey, kmade >>
    /\ UNCHANGED << compileVars, genVars, scanVars >>

\* the caller's process is interrupted between the write of the private key
\* (secrets.py:81) and the write of the public key (82)
KInterrupt(p) ==
    /\ kpc[p] = "write_pub"
    /\ kpc' = [ kpc EXCEPT ![p] = "killed" ]
    /\ UNCHANGED << progVars, moreVars, backend, kkey, kret, kmade >>
    /\ UNCHANGED << compileVars, genVars, scanVars >>

\* secrets.py:111-117  create_or_update_secret with both parts, and return
KSave(p) ==
    /\ kpc[p] = "save"
    /\ \E fails \in BOOLEAN :
         IF fails
         THEN /\ kpc' = [ kpc EXCEPT ![p] = "raised" ]
              /\ UNCHANGED << key_store, kret >>
         ELSE /\ key_store' = [ priv |-> kkey[p], pub |-> kkey[p] ]
              /\ kret' = [ kret EXCEPT ![p] = key_store' ]
              /\ kpc' = [ kpc EXCEPT ![p] = "done" ]
    /\ UNCHANGED << progButKeys, moreVars, backend, kkey, kmade >>
    /\ UNCHANGED << compileVars, genVars, scanVars >>

InitKeys ==
    /\ ProgIdle
    /\ backend \in { "local", "openbao" }
    /\ kpc = [ p \in Callers |-> "check" ]
    /\ kkey = [ p \in Callers |-> 0 ]
    /\ kret = [ p \in Callers |-> NoKeys ]
    /\ kmade = 0
    /\ CompileIdle
    /\ GenIdle
    /\ ScanIdle
    /\ MoreIdle

NextKeys ==
    \E p \in Callers :
        \/ KCheck(p) \/ KReadPriv(p) \/ KReadPub(p) \/ KGenerate(p)
        \/ KWritePriv(p) \/ KWritePub(p) \/ KInterrupt(p) \/ KSave(p)

SpecKeys == InitKeys /\ [][NextKeys]_vars

----------------------------------------------------------------------------
(* graph_to_spec(graph, provider) (core/spec.py:6-55) *)

\* Python's None, for the optional fields of Node
PyNone == "None"

\* `x or d`: None and the empty string are falsy
OrElse(x, d) == IF x = PyNone \/ x = "" THEN d ELSE x

\* models.py:28-37  the nodes the inputs draw from: [id, type, name, region,
\* ip_range, server_type]
MkNode(id, type, name, region, ip_range, server_type) ==
    [ id |-> id, type |-> type, name |-> name, region |-> region,
      ip_range |-> ip_range, server_type |-> server_type ]

NodeChoices ==
    { MkNode("hetzner:network:1", "Network", "app", PyNone, "10.1.0.0/16", PyNone),
      MkNode("hetzner:network:2", "Network", PyNone, PyNone, PyNone, PyNone),
      MkNode("hetzner:network:3", "Network", "default", PyNone, "10.9.0.0/16", PyNone),
      MkNode("hetzner:server:1", "ComputeInstance", "web", "fsn1", PyNone, "cx31"),
      MkNode("hetzner:server:2", "ComputeInstance", PyNone, "nbg1", PyNone, PyNone),
      MkNode("hetzner:volume:1", "Volume", "data", "hel1", PyNone, PyNone) }

\* models.py:40-46  the edges the inputs draw from; hetzner:network:9 is in no graph
EdgeChoices ==
    { [ from |-> "hetzner:server:1", to |-> "hetzner:network:1", type |-> "in_network" ],
      [ from |-> "hetzner:server:1", to |-> "hetzner:network:2", type |-> "in_network" ],
      [ from |-> "hetzner:server:2", to |-> "hetzner:network:9", type |-> "in_network" ],
      [ from |-> "hetzner:volume:1", to |-> "hetzner:network:1", type |-> "in_network" ],
      [ from |-> "hetzner:volume:1", to |-> "hetzner:server:1", type |-> "attached_to" ] }

\* a dict as Python keeps it: keys in insertion order, a second assignment to a
\* key replaces the value in place
DictHas(d, k) == \E i \in 1..Len(d) : d[i].key = k

DictSet(d, k, v) ==
    IF DictHas(d, k)
    THEN [ i \in 1..Len(d) |-> IF d[i].key = k THEN [ key |-> k, val |-> v ] ELSE d[i] ]
    ELSE Append(d, [ key |-> k, val |-> v ])

DictGet(d, k, default) ==
    IF DictHas(d, k) THEN d[CHOOSE i \in 1..Len(d) : d[i].key = k].val ELSE default

DictSetDefault(d, k, v) == IF DictHas(d, k) THEN d ELSE DictSet(d, k, v)

DictValues(d) == [ i \in 1..Len(d) |-> d[i].val ]

\* mutant of IsNetwork: volumes are taken for networks too
IsNetworkOrVolume(node) == node.type \in { "Network", "Volume" }

\* spec.py:12  the node is a network
IsNetwork(node) == node.type = "Network"

\* spec.py:11-15  the networks dict after the first i nodes
RECURSIVE BuildNetworks(_, _)
BuildNetworks(nodes, i) ==
    IF i = 0 THEN << >>
    ELSE LET node == nodes[i]
             sofar == BuildNetworks(nodes, i - 1)
         IN  IF IsNetwork(node)
             THEN DictSet(sofar, node.id,
                          [ name |-> OrElse(node.name, node.id),
                            cidr |-> OrElse(node.ip_range, "10.0.0.0/24") ])
             ELSE sofar

\* spec.py:18-21  the server_network dict after the first i edges
RECURSIVE ServerNetwork(_, _, _)
ServerNetwork(edges, i, networks) ==
    IF i = 0 THEN << >>
    ELSE LET edge == edges[i]
             sofar == ServerNetwork(edges, i - 1, networks)
         IN  IF edge.type = "in_network" /\ DictHas(networks, edge.to)
             THEN DictSet(sofar, edge.from, DictGet(networks, edge.to, PyNone).name)
             ELSE sofar

NetworkNames(networks) == { networks[i].val.name : i \in 1..Len(networks) }

\* spec.py:31  f"synthetic:{net_name}"
SyntheticKey(net_name) == "synthetic:" \o net_name

\* mutant of NetNameOf: the network of the last edge is taken without looking it up
NetNameOfEdgeTarget(node, server_network) ==
    DictGet(server_network, node.id, "hetzner:network:9")

\* spec.py:27  the network name of an instance node
NetNameOf(node, server_network) == DictGet(server_network, node.id, "default")

\* spec.py:25-46  [networks, regions, instances] after the first i nodes
RECURSIVE InstancesPass(_, _, _, _)
InstancesPass(nodes, i, networks0, server_network) ==
    IF i = 0 THEN [ networks |-> networks0, regions |-> { }, instances |-> << >> ]
    ELSE LET node == nodes[i]
             sofar == InstancesPass(nodes, i - 1, networks0, server_network)
             net_name == NetNameOf(node, server_network)
         IN  IF node.type = "ComputeInstance"
             THEN [ networks |->
                        IF net_name \notin NetworkNames(sofar.networks)
                        THEN DictSetDefault(sofar.networks, SyntheticKey(net_name),
                                            [ name |-> net_name, cidr |-> "10.0.0.0/24" ])
                        ELSE sofar.networks,
                    regions |-> IF node.region # PyNone /\ node.region # ""
                                THEN sofar.regions \cup { node.region }
                                ELSE sofar.regions,
                    instances |-> Append(sofar.instances,
                        [ name |-> OrElse(node.name, node.id),
                          size |-> OrElse(node.server_type, "cx21"),
                          network |-> net_name,
                          region |-> node.region,
                          workloads |-> << >> ]) ]
             ELSE sofar

\* the orders in which a process may iterate a set of region strings: str hashes
\* are salted per process, so the order is fixed within a process and free across
RegionNames == { "fsn1", "nbg1" }
HashOrders == { << "fsn1", "nbg1" >>, << "nbg1", "fsn1" >> }

\* spec.py:48  next(iter(regions)) if regions else None
FirstOf(regions, order) ==
    IF regions = { } THEN PyNone
    ELSE order[CHOOSE i \in 1..Len(order) :
                   /\ order[i] \in regions
                   /\ \A j \in 1..(i - 1) : order[j] \notin regions]

\* spec.py:6-55  graph_to_spec in a process whose set iteration order is `order`
GraphToSpec(g, provider, order) ==
    LET networks == BuildNetworks(g.nodes, Len(g.nodes))
        server_network == ServerNetwork(g.edges, Len(g.edges), networks)
        pass == InstancesPass(g.nodes, Len(g.nodes), networks, server_network)
    IN  [ provider |-> provider,
          region |-> FirstOf(pass.regions, order),
          networks |-> DictValues(pass.networks),
          instances |-> pass.instances ]

NodeIds(g) == { g.nodes[i].id : i \in 1..Len(g.nodes) }

\* the caller adds a node to the graph it is going to compile
GraphAddNode ==
    /\ cout = << >>
    /\ Len(graph.nodes) < MaxNodes
    /\ \E n \in NodeChoices :
         /\ n.id \notin NodeIds(graph)
         /\ graph' = [ graph EXCEPT !.nodes = Append(@, n) ]
    /\ UNCHANGED << progVars, moreVars, keyVars, genVars, scanVars, cprovider, cout >>

\* the caller adds an edge to the graph it is going to compile
GraphAddEdge ==
    /\ cout = << >>
    /\ Len(graph.edges) < MaxEdges
    /\ \E e \in EdgeChoices : graph' = [ graph EXCEPT !.edges = Append(@, e) ]
    /\ UNCHANGED << progVars, moreVars, keyVars, genVars, scanVars, cprovider, cout >>

\* one invocation of graph_to_spec(graph, provider), each in a process of its own
Compile ==
    /\ Len(cout) < 2
    /\ \E order \in HashOrders :
         cout' = Append(cout, [ spec |-> GraphToSpec(graph, cprovider, order),
                                order |-> order ])
    /\ UNCHANGED << progVars, moreVars, keyVars, genVars, scanVars, graph, cprovider >>

InitCompile ==
    /\ ProgIdle
    /\ KeysIdle
    /\ graph = [ nodes |-> << >>, edges |-> << >> ]
    /\ cprovider \in { "hetzner", "aws" }
    /\ cout = << >>
    /\ GenIdle
    /\ ScanIdle
    /\ MoreIdle

NextCompile == GraphAddNode \/ GraphAddEdge \/ Compile

SpecCompile == InitCompile /\ [][NextCompile]_vars

----------------------------------------------------------------------------
(* HetznerTerraformGenerator.generate(spec, out_dir) on a directory with a
   history (terraform_gen.py:164-233) *)

\* the specs generate is called with: instances by name, all on one network
GenSpecOf(names) ==
    [ provider |-> "hetzner",
      networks |-> << [ name |-> NetApp ] >>,
      instances |-> [ i \in 1..Len(names) |->
                        [ name |-> names[i], network |-> NetApp, workloads |-> << >> ] ] ]

NameWebA == << "web", "-", "a" >>
NameWebB == << "web", "_", "a" >>

GenSpecs == { GenSpecOf(<< >>), GenSpecOf(<< NameWeb >>), GenSpecOf(<< NameDb, NameWeb >>),
              GenSpecOf(<< NameWebA, NameWebB >>) }

\* the text generate writes to file f, as a list of blocks
FileBlocks(files, f) ==
    CASE f = "backend.tf" -> << [ block |-> files.backend ] >>
      [] f = "providers.tf" -> << [ block |-> files.providers ] >>
      [] f = "variables.tf" -> << [ block |-> files.variables ] >>
      [] f = "network.tf" -> files.network
      [] f = "servers.tf" -> files.servers
      [] f = "outputs.tf" -> files.outputs

\* mutant of WriteText: an existing file is left as it is
WriteTextIfAbsent(old, blocks) ==
    IF old.present THEN old ELSE [ present |-> TRUE, blocks |-> blocks ]

\* Path.write_text (terraform_gen.py:172, 180, 197, 218, 224, 233): the file is
\* created or truncated and holds the new text
WriteText(old, blocks) == [ present |-> TRUE, blocks |-> blocks ]

\* terraform_gen.py:164-233  generate(spec, out_dir) on the directory dir
GenerateInto(dir, spec) ==
    [ f \in DirFiles |->
        IF f \in FileSet THEN WriteText(dir[f], FileBlocks(GenerateFiles(spec), f))
        ELSE dir[f] ]

HandEdited == [ present |-> TRUE, blocks |-> << [ block |-> "hand-edited" ] >> ]

\* a generate call on the directory (and, for comparison, on an empty one)
GenerateCall ==
    /\ gops < MaxGenOps
    /\ \E spec \in GenSpecs :
         /\ gdir' = GenerateInto(gdir, spec)
         /\ gref' = GenerateInto(EmptyDir, spec)
         /\ gspec' = spec
    /\ glast' = "generate"
    /\ gops' = gops + 1
    /\ UNCHANGED << progVars, moreVars, keyVars, compileVars, scanVars >>

\* someone edits, creates or deletes a file of the directory by hand
HandEdit ==
    /\ gops < MaxGenOps
    /\ \E f \in DirFiles, c \in { HandEdited, AbsentFile } :
         /\ gdir[f] # c
         /\ gdir' = [ gdir EXCEPT ![f] = c ]
    /\ glast' = "edit"
    /\ gops' = gops + 1
    /\ UNCHANGED << progVars, moreVars, keyVars, compileVars, scanVars, gref, gspec >>

InitGen ==
    /\ ProgIdle
    /\ KeysIdle
    /\ CompileIdle
    /\ GenIdle
    /\ ScanIdle
    /\ MoreIdle

NextGen == GenerateCall \/ HandEdit

SpecGen == InitGen /\ [][NextGen]_vars

----------------------------------------------------------------------------
(* run_scan (core/scan.py:6-21) with HetznerAdapter.scan
   (adapters/__init__.py:77-497) *)

\* f"hetzner:{kind}:{native_id}"
NodeId(kind, native) == << "hetzner", kind, native >>

MkGraphNode(kind, native, type) == [ id |-> NodeId(kind, native), type |-> type ]

MkGraphEdge(from, to, type) == [ from |-> from, to |-> to, type |-> type ]

RECURSIVE Flatten(_)
Flatten(ss) == IF ss = << >> THEN << >> ELSE Head(ss) \o Flatten(Tail(ss))

\* adapters/__init__.py:93-138, 141-162  one node per listed server and network
ServerNodes(servers) ==
    [ i \in 1..Len(servers) |-> MkGraphNode("server", servers[i].id, "ComputeInstance") ]

NetworkNodes(networks) ==
    [ i \in 1..Len(networks) |-> MkGraphNode("network", networks[i].id, "Network") ]

\* adapters/__init__.py:165-180  in_network edges; 0 stands for a nic without network
NicEdges(from, nics) ==
    Flatten([ j \in 1..Len(nics) |->
                IF nics[j] = 0 THEN << >>
                ELSE << MkGraphEdge(from, NodeId("network", nics[j]), "in_network") >> ])

ServerEdges(servers) ==
    Flatten([ i \in 1..Len(servers) |->
                NicEdges(NodeId("server", servers[i].id), servers[i].private_net) ])

\* adapters/__init__.py:183-227  volumes and their attachment; 0 stands for no server
VolumeNodes(volumes) ==
    [ i \in 1..Len(volumes) |-> MkGraphNode("volume", volumes[i].id, "Volume") ]

VolumeEdges(volumes) ==
    Flatten([ i \in 1..Len(volumes) |->
                IF volumes[i].server = 0 THEN << >>
                ELSE << MkGraphEdge(NodeId("server", volumes[i].server),
                                    NodeId("volume", volumes[i].id), "attached_to") >> ])

\* adapters/__init__.py:291-352  the targets of one load balancer, after the first
\* i of them: acc is [nodes, edges, seen]
RECURSIVE LbTargets(_, _, _)
LbTargets(lb, i, acc0) ==
    IF i = 0 THEN acc0
    ELSE LET acc == LbTargets(lb, i - 1, acc0)
             t == lb.targets[i]
             lb_node == NodeId("lb", lb.id)
             ip_node == << "hetzner", "lb_target_ip", lb.id, t.ref >>
         IN  IF t.type = "server" /\ t.ref # 0
             THEN [ acc EXCEPT !.edges = Append(@,
                        MkGraphEdge(lb_node, NodeId("server", t.ref), "targets")) ]
             ELSE IF t.type = "ip" /\ t.ref # 0
             THEN [ nodes |-> IF ip_node \in acc.seen THEN acc.nodes
                              ELSE Append(acc.nodes, [ id |-> ip_node, type |-> "IpAddress" ]),
                    edges |-> Append(acc.edges, MkGraphEdge(lb_node, ip_node, "targets")),
                    seen |-> acc.seen \cup { ip_node } ]
             ELSE acc

\* adapters/__init__.py:230-352  the load balancers, after the first i of them
RECURSIVE LbPass(_, _)
LbPass(lbs, i) ==
    IF i = 0 THEN [ nodes |-> << >>, edges |-> << >>, seen |-> { } ]
    ELSE LET acc == LbPass(lbs, i - 1)
             lb == lbs[i]
             withNode == [ acc EXCEPT
                             !.nodes = Append(@, MkGraphNode("lb", lb.id, "LoadBalancer")),
                             !.edges = @ \o NicEdges(NodeId("lb", lb.id), lb.private_net) ]
         IN  LbTargets(lb, Len(lb.targets), withNode)

\* adapters/__init__.py:380-408  protected_by edges of one firewall after its first
\* i targets, each server once: acc is [edges, seen]
RECURSIVE FwTargets(_, _, _)
FwTargets(fw, targets, i) ==
    IF i = 0 THEN [ edges |-> << >>, seen |-> { } ]
    ELSE LET acc == FwTargets(fw, targets, i - 1)
             t == targets[i]
         IN  IF t.type # "server" \/ t.ref = 0 \/ t.ref \in acc.seen THEN acc
             ELSE [ edges |-> Append(acc.edges,
                                MkGraphEdge(NodeId("firewall", fw.id),
                                            NodeId("server", t.ref), "protected_by")),
                    seen |-> acc.seen \cup { t.ref } ]

\* adapters/__init__.py:355-408
FirewallNodes(fws) ==
    [ i \in 1..Len(fws) |-> MkGraphNode("firewall", fws[i].id, "Firewall") ]

FirewallEdges(fws) ==
    Flatten([ i \in 1..Len(fws) |->
                FwTargets(fws[i], fws[i].applied_to \o fws[i].applied_to_resources,
                          Len(fws[i].applied_to) + Len(fws[i].applied_to_resources)).edges ])

\* adapters/__init__.py:411-453
PrimaryIpNodes(ips) ==
    [ i \in 1..Len(ips) |-> MkGraphNode("primary_ip", ips[i].id, "IpAddress") ]

PrimaryIpEdges(ips) ==
    Flatten([ i \in 1..Len(ips) |->
                IF ips[i].assignee_type = "server" /\ ips[i].assignee_id # 0
                THEN << MkGraphEdge(NodeId("primary_ip", ips[i].id),
                                    NodeId("server", ips[i].assignee_id), "resolves_to") >>
                ELSE << >> ])

\* adapters/__init__.py:456-495
FloatingIpNodes(ips) ==
    [ i \in 1..Len(ips) |-> MkGraphNode("floating_ip", ips[i].id, "IpAddress") ]

FloatingIpEdges(ips) ==
    Flatten([ i \in 1..Len(ips) |->
                IF ips[i].server # 0
                THEN << MkGraphEdge(NodeId("floating_ip", ips[i].id),
                                    NodeId("server", ips[i].server), "resolves_to") >>
                ELSE << >> ])

\* adapters/__init__.py:92-497  the graph scan builds from the collected items
BuildGraph(items) ==
    LET lbs == LbPass(items[4], Len(items[4])) IN
    [ nodes |-> ServerNodes(items[1]) \o NetworkNodes(items[2]) \o VolumeNodes(items[3])
                \o lbs.nodes \o FirewallNodes(items[5]) \o PrimaryIpNodes(items[6])
                \o FloatingIpNodes(items[7]),
      edges |-> ServerEdges(items[1]) \o VolumeEdges(items[3]) \o lbs.edges
                \o FirewallEdges(items[5]) \o PrimaryIpEdges(items[6])
                \o FloatingIpEdges(items[7]) ]

\* what the provider may answer, per listing: a list of pages
ServerPages ==
    { << << [ id |-> 1, private_net |-> << 1 >> ] >> >>,
      << << [ id |-> 1, private_net |-> << 1, 0 >> ] >>,
         << [ id |-> 2, private_net |-> << >> ] >> >>,
      << << [ id |-> 1, private_net |-> << 1 >> ] >>,
         << [ id |-> 1, private_net |-> << 1 >> ] >> >> }
NetworkPages == { << << >> >>, << << [ id |-> 1 ] >> >> }
VolumePages == { << << [ id |-> 1, server |-> 1 ] >> >>,
                 << << [ id |-> 1, server |-> 0 ], [ id |-> 2, server |-> 5 ] >> >> }
LbPages ==
    { << << >> >>,
      << << [ id |-> 1, private_net |-> << 1 >>,
              targets |-> << [ type |-> "server", ref |-> 1 ],
                             [ type |-> "ip", ref |-> 7 ],
                             [ type |-> "ip", ref |-> 7 ],
                             [ type |-> "label_selector", ref |-> 0 ] >> ] >> >> }
FirewallPages ==
    { << << >> >>,
      << << [ id |-> 1,
              applied_to |-> << [ type |-> "server", ref |-> 1 ],
                                [ type |-> "label_selector", ref |-> 0 ] >>,
              applied_to_resources |-> << [ type |-> "server", ref |-> 1 ] >> ] >> >> }
PrimaryIpPages ==
    { << << >> >>,
      << << [ id |-> 1, assignee_type |-> "server", assignee_id |-> 1 ],
            [ id |-> 2, assignee_type |-> "server", assignee_id |-> 0 ] >> >> }
FloatingIpPages ==
    { << << >> >>, << << [ id |-> 1, server |-> 0 ] >> >> }

ApiAnswers ==
    { << s, n, v, l, f, p, q >> :
        s \in ServerPages, n \in NetworkPages, v \in VolumePages, l \in LbPages,
        f \in FirewallPages, p \in PrimaryIpPages, q \in FloatingIpPages }

\* a graph persisted by an earlier scan, of a server that exists no more
OldGraph == [ nodes |-> << MkGraphNode("server", 77, "ComputeInstance") >>,
              edges |-> << >> ]

\* mutant of StatusRaises: the response's status is not looked at
StatusIgnored(fails) == FALSE

\* adapters/__init__.py:55-61  requests.get raising, or raise_for_status on an
\* error status
StatusRaises(fails) == fails

\* scan.py:12-13 with adapters/__init__.py:36-46, 80  the adapter builds its
\* headers: without a token it raises before any request
ScanHeaders ==
    /\ spc = "start"
    /\ IF ~stoken
       THEN /\ sout' = [ kind |-> "raise", graph |-> NoGraph, err |-> "RuntimeError" ]
            /\ spc' = "done"
       ELSE /\ spc' = "fetch"
            /\ UNCHANGED sout
    /\ UNCHANGED << progVars, moreVars, keyVars, compileVars, genVars, stoken, sapi, sli, spg,
                    sitems, sreqs, sfailed, scan_json, scan_old >>

\* adapters/__init__.py:48-75, 84-90  one request of _get_paginated
FetchPage ==
    /\ spc = "fetch"
    /\ sreqs' = sreqs + 1
    /\ \E fails \in BOOLEAN :
         /\ sfailed' = (sfailed \/ fails)
         /\ IF StatusRaises(fails)
            THEN /\ sout' = [ kind |-> "raise", graph |-> NoGraph, err |-> "HTTPError" ]
                 /\ spc' = "done"
                 /\ UNCHANGED << sli, spg, sitems >>
            ELSE /\ sitems' = [ sitems EXCEPT ![sli] =
                                  @ \o (IF fails THEN << >> ELSE sapi[sli][spg]) ]
                 /\ IF spg < Len(sapi[sli])
                    THEN spg' = spg + 1 /\ UNCHANGED << sli, spc >>
                    ELSE /\ spg' = 1
                         /\ IF sli < Len(Listings)
                            THEN sli' = sli + 1 /\ UNCHANGED spc
                            ELSE spc' = "build" /\ UNCHANGED sli
                 /\ UNCHANGED sout
    /\ UNCHANGED << progVars, moreVars, keyVars, compileVars, genVars, stoken, sapi, scan_json,
                    scan_old >>

\* adapters/__init__.py:92-497 and scan.py:14-21  the graph is built, written to
\* scan.json and returned
FinishScan ==
    /\ spc = "build"
    /\ scan_json' = BuildGraph(sitems)
    /\ sout' = [ kind |-> "return", graph |-> BuildGraph(sitems), err |-> "" ]
    /\ spc' = "done"
    /\ UNCHANGED << progVars, moreVars, keyVars, compileVars, genVars, stoken, sapi, sli, spg,
                    sitems, sreqs, sfailed, scan_old >>

InitScan ==
    /\ ProgIdle
    /\ KeysIdle
    /\ CompileIdle
    /\ GenIdle
    /\ stoken \in BOOLEAN
    /\ sapi \in ApiAnswers
    /\ spc = "start"
    /\ sli = 1
    /\ spg = 1
    /\ sitems = NoItems
    /\ sreqs = 0
    /\ sfailed = FALSE
    /\ scan_old \in { NoGraph, OldGraph }
    /\ scan_json = scan_old
    /\ sout = [ kind |-> "none", graph |-> NoGraph, err |-> "" ]
    /\ MoreIdle

NextScan == ScanHeaders \/ FetchPage \/ FinishScan

SpecScan == InitScan /\ [][NextScan]_vars

----------------------------------------------------------------------------
(* ServerDeployer.configure_combined_nginx(apps) as a function of the apps list
   (adapters/deployer.py:254-317); names are sequences of characters *)

\* str.lower() on the characters the names use
Lower(c) ==
    CASE c = "A" -> "a"
      [] c = "G" -> "g"
      [] c = "I" -> "i"
      [] c = "P" -> "p"
      [] c = "U" -> "u"
      [] OTHER -> c

LowerName(name) == [ i \in 1..Len(name) |-> Lower(name[i]) ]

\* models.py:62-90  what configure_combined_nginx reads of an ApplicationSpec
MkRouteApp(name, ports, server_names, https) ==
    [ name |-> name, ports |-> ports, server_names |-> server_names, https |-> https ]

RouteApps ==
    { MkRouteApp(<< "u", "i" >>, << 3000 >>, << "a.example" >>, FALSE),
      MkRouteApp(<< "u", "i" >>, << >>, << >>, TRUE),
      MkRouteApp(<< "a", "p", "i" >>, << 8000, 8001 >>, << " a.example " >>, TRUE),
      MkRouteApp(<< "a", "p", "i", "2" >>, << 8002 >>, << " " >>, TRUE),
      MkRouteApp(<< "w", "e", "b" >>, << 8080 >>, << >>, FALSE),
      MkRouteApp(<< "G", "U", "I" >>, << 3001 >>, << "b.example" >>, FALSE),
      MkRouteApp(<< "j", "o", "b" >>, << >>, << "c.example" >>, TRUE) }

\* deployer.py:256  the positions of the apps with ports, in list order
RECURSIVE RouteCandidates(_, _)
RouteCandidates(apps, i) ==
    IF i = 0 THEN << >>
    ELSE IF apps[i].ports # << >>
         THEN Append(RouteCandidates(apps, i - 1), i)
         ELSE RouteCandidates(apps, i - 1)

\* deployer.py:261  "ui" in a.name.lower()
HasUi(app) == Contains(LowerName(app.name), << "u", "i" >>)

\* mutant of RootIndex: the first candidate is the root whatever it is called
RootIndexFirst(apps, cands) == cands[1]

\* deployer.py:261  next((a for a in candidates if "ui" in a.name.lower()), candidates[0])
RootIndex(apps, cands) ==
    IF \E k \in 1..Len(cands) : HasUi(apps[cands[k]])
    THEN cands[CHOOSE k \in 1..Len(cands) :
                   /\ HasUi(apps[cands[k]])
                   /\ \A j \in 1..(k - 1) : ~HasUi(apps[cands[j]])]
    ELSE cands[1]

\* deployer.py:271-274  a leading and a trailing slash are added when missing
EnsureSlashes(prefix) ==
    LET lead == IF prefix # << >> /\ Head(prefix) = "/" THEN prefix
                ELSE << "/" >> \o prefix
    IN  IF lead[Len(lead)] = "/" THEN lead ELSE lead \o << "/" >>

\* deployer.py:269-274  the location prefix of an app that is not the root
PrefixOf(app) ==
    EnsureSlashes(IF Contains(LowerName(app.name), << "a", "p", "i" >>)
                  THEN << "/", "a", "p", "i", "/" >>
                  ELSE << "/" >> \o app.name \o << "/" >>)

\* deployer.py:264-284  the location blocks after the first k candidates
RECURSIVE RouteLocations(_, _, _, _)
RouteLocations(apps, cands, root, k) ==
    IF k = 0 THEN << >>
    ELSE LET sofar == RouteLocations(apps, cands, root, k - 1)
             app == apps[cands[k]]
         IN  IF cands[k] = root THEN sofar
             ELSE Append(sofar, [ prefix |-> PrefixOf(app), port |-> app.ports[1] ])

\* deployer.py:286-290  server_names.extend(...) over the candidates
RECURSIVE RouteServerNames(_, _, _)
RouteServerNames(apps, cands, k) ==
    IF k = 0 THEN << >>
    ELSE RouteServerNames(apps, cands, k - 1) \o apps[cands[k]].server_names

\* deployer.py:254-317  the site written, and whether a certificate is requested
CombinedConf(apps) ==
    LET cands == RouteCandidates(apps, Len(apps))
    IN  IF cands = << >> THEN [ NoConf EXCEPT !.called = TRUE ]
        ELSE LET root == RootIndex(apps, cands)
                 names == NormalizeServerNames(RouteServerNames(apps, cands, Len(cands)))
                 https_enabled == \E k \in 1..Len(cands) : apps[cands[k]].https
             IN  [ called |-> TRUE,
                   written |-> TRUE,
                   root_port |-> apps[root].ports[1],
                   locations |-> RouteLocations(apps, cands, root, Len(cands)),
                   server_names |-> names,
                   cert |-> https_enabled /\ names # << >> ]

\* apply_plan deploys one more workload of the instance (apply.py:87-91)
RouteAddApp ==
    /\ ~rconf.called
    /\ Len(rapps) < MaxApps
    /\ \E a \in RouteApps : rapps' = Append(rapps, a)
    /\ UNCHANGED << progVars, keyVars, compileVars, genVars, scanVars, pageVars,
                    syncVars, rconf >>

\* configure_combined_nginx(deployed_apps) (apply.py:92-93)
ConfigureCombinedNginx ==
    /\ ~rconf.called
    /\ rapps # << >>
    /\ rconf' = CombinedConf(rapps)
    /\ UNCHANGED << progVars, keyVars, compileVars, genVars, scanVars, pageVars,
                    syncVars, rapps >>

InitRoute ==
    /\ ProgIdle
    /\ KeysIdle
    /\ CompileIdle
    /\ GenIdle
    /\ ScanIdle
    /\ PageIdle
    /\ SyncIdle
    /\ RouteIdle

NextRoute == RouteAddApp \/ ConfigureCombinedNginx

SpecRoute == InitRoute /\ [][NextRoute]_vars

----------------------------------------------------------------------------
(* The worker's operations on one workspace: run_scan, sync_spec
   (core/spec.py:57-72), generate_plan (core/plan.py:87-179) and apply_plan, as
   far as they read and write scan.json, spec.json and the plan artifact *)

\* what run_scan may write to scan.json
SyncGraphs ==
    { [ present |-> TRUE, nodes |-> << >>, edges |-> << >> ],
      [ present |-> TRUE,
        nodes |-> << MkNode("hetzner:network:1", "Network", "app", PyNone, "10.1.0.0/16", PyNone),
                     MkNode("hetzner:server:1", "ComputeInstance", "web", "fsn1", PyNone, "cx31") >>,
        edges |-> << [ from |-> "hetzner:server:1", to |-> "hetzner:network:1",
                       type |-> "in_network" ] >> ],
      [ present |-> TRUE,
        nodes |-> << MkNode("hetzner:server:1", "ComputeInstance", "web", "fsn1", PyNone, "cx31"),
                     MkNode("hetzner:server:2", "ComputeInstance", PyNone, "nbg1", PyNone, PyNone) >>,
        edges |-> << >> ] }

\* spec.json as a file: the spec's fields and whether the file exists
SpecFile(spec) ==
    [ present |-> TRUE, provider |-> spec.provider, region |-> spec.region,
      networks |-> spec.networks, instances |-> spec.instances ]

\* a spec as an earlier plan set it: the instance web runs ui and api
AppliedSpec ==
    SpecFile([ provider |-> "hetzner", region |-> "fsn1",
               networks |-> << [ name |-> "app", cidr |-> "10.1.0.0/16" ] >>,
               instances |-> << [ name |-> "web", size |-> "cx31", network |-> "app",
                                  region |-> "fsn1", workloads |-> << "ui", "api" >> ] >> ])

\* the new_spec a planner may answer with: the applied one, or the current spec
\* with a workload on each of its instances
WithWorkload(file) ==
    [ file EXCEPT !.instances =
        [ i \in 1..Len(file.instances) |->
            [ file.instances[i] EXCEPT !.workloads = << "site" >> ] ] ]

\* mutant of SyncSpecWrite: the instances keep the workloads spec.json held for them
SyncSpecMerge(old, derived) ==
    [ derived EXCEPT !.instances =
        [ i \in 1..Len(derived.instances) |->
            IF \E j \in 1..Len(old.instances) :
                   old.instances[j].name = derived.instances[i].name
            THEN [ derived.instances[i] EXCEPT !.workloads =
                     old.instances[CHOOSE j \in 1..Len(old.instances) :
                         old.instances[j].name = derived.instances[i].name].workloads ]
            ELSE derived.instances[i] ] ]

\* spec.py:65-70  spec_path.write_text(spec.model_dump_json()): what spec.json
\* holds after sync_spec, given what it held and the spec derived from the graph
SyncSpecWrite(old, derived) == derived

\* apply.py:75-98  the deploy calls of an apply_plan on which nothing fails and
\* every instance has an address: (instance, workload), in order
RECURSIVE DeploysOf(_)
DeploysOf(instances) ==
    IF instances = << >> THEN << >>
    ELSE [ i \in 1..Len(Head(instances).workloads) |->
             [ inst |-> Head(instances).name, app |-> Head(instances).workloads[i] ] ]
         \o DeploysOf(Tail(instances))

\* worker.py:226  run_scan writes scan.json
WorkerScan ==
    /\ wops < MaxSyncOps
    /\ \E g \in SyncGraphs : wscan_json' = g
    /\ wlast' = "scan"
    /\ wops' = wops + 1
    /\ UNCHANGED << progVars, keyVars, compileVars, genVars, scanVars, routeVars,
                    pageVars, wspec_json, wplan, wdeploys >>

\* spec.py:57-72  sync_spec: raise without scan.json, else write spec.json
SyncSpec ==
    /\ wops < MaxSyncOps
    /\ IF ~wscan_json.present
       THEN /\ wlast' = "sync_raised"
            /\ UNCHANGED wspec_json
       ELSE /\ \E order \in HashOrders :
                 wspec_json' = SyncSpecWrite(wspec_json,
                                   SpecFile(GraphToSpec(wscan_json, "hetzner", order)))
            /\ wlast' = "sync"
    /\ wops' = wops + 1
    /\ UNCHANGED << progVars, keyVars, compileVars, genVars, scanVars, routeVars,
                    pageVars, wscan_json, wplan, wdeploys >>

\* plan.py:97-179  generate_plan: raise without spec.json; the fallback plan
\* (no API key, or the planner failed) carries spec.json as new_spec, a planner's
\* answer carries a spec of its own
GeneratePlan ==
    /\ wops < MaxSyncOps
    /\ IF ~wspec_json.present
       THEN /\ wlast' = "plan_raised"
            /\ UNCHANGED wplan
       ELSE /\ \E fallback \in BOOLEAN :
                 IF fallback
                 THEN wplan' = [ present |-> TRUE, new_spec |-> wspec_json,
                                 from_sync |-> wlast = "sync" ]
                 ELSE \E answer \in { AppliedSpec, WithWorkload(wspec_json) } :
                        wplan' = [ present |-> TRUE, new_spec |-> answer,
                                   from_sync |-> FALSE ]
            /\ wlast' = "plan"
    /\ wops' = wops + 1
    /\ UNCHANGED << progVars, keyVars, compileVars, genVars, scanVars, routeVars,
                    pageVars, wspec_json, wscan_json, wdeploys >>

\* apply.py:22-100  apply_plan on the plan artifact: persist new_spec, deploy the
\* workloads of its instances
WorkerApply ==
    /\ wops < MaxSyncOps
    /\ wplan.present
    /\ wspec_json' = wplan.new_spec
    /\ wdeploys' = DeploysOf(wplan.new_spec.instances)
    /\ wlast' = "apply"
    /\ wops' = wops + 1
    /\ UNCHANGED << progVars, keyVars, compileVars, genVars, scanVars, routeVars,
                    pageVars, wscan_json, wplan >>

InitSync ==
    /\ ProgIdle
    /\ KeysIdle
    /\ CompileIdle
    /\ GenIdle
    /\ ScanIdle
    /\ RouteIdle
    /\ PageIdle
    /\ wspec_json \in { NoSpecFile, AppliedSpec }
    /\ wscan_json = NoScanFile
    /\ wplan = NoPlan
    /\ wdeploys = IF wspec_json.present THEN DeploysOf(wspec_json.instances) ELSE << >>
    /\ wlast = "none"
    /\ wops = 0

NextSync == WorkerScan \/ SyncSpec \/ GeneratePlan \/ WorkerApply

SpecSync == InitSync /\ [][NextSync]_vars

----------------------------------------------------------------------------
(* HetznerAdapter._get_paginated(path, root_key, headers)
   (adapters/__init__.py:48-75) against a provider that answers each page
   request the same way every time *)

\* the answers a provider may give to the request for page p: a list of items
\* (here the one item p, or none) with or without a next_page cursor, a value
\* under root_key that is no list, or an error status
PageResponses(p) ==
    { [ status |-> 200, is_list |-> TRUE, chunk |-> << p >>, next_page |-> n ] :
        n \in 0..MaxPages }
    \cup { LastEmpty,
           [ status |-> 200, is_list |-> FALSE, chunk |-> << >>,
             next_page |-> IF p < MaxPages THEN p + 1 ELSE 0 ],
           [ status |-> 500, is_list |-> TRUE, chunk |-> << >>, next_page |-> 0 ] }

\* adapters/__init__.py:54-73  one pass of the loop: request the page, raise on
\* an error status, leave on a non-list, extend items, leave without a cursor,
\* else go to the page the cursor names.  pitems holds the items of the pages
\* requested for the first time.
PageRequest ==
    /\ ppc = "loop"
    /\ pseen' = pseen \cup { ppage }
    /\ prepeat' = (prepeat \/ ppage \in pseen)
    /\ LET resp == papi[ppage]
       IN  IF resp.status # 200
           THEN ppc' = "raised" /\ UNCHANGED << ppage, pitems >>
           ELSE IF ~resp.is_list
           THEN ppc' = "done" /\ UNCHANGED << ppage, pitems >>
           ELSE /\ pitems' = IF ppage \in pseen THEN pitems ELSE pitems \o resp.chunk
                /\ IF resp.next_page = 0
                   THEN ppc' = "done" /\ UNCHANGED ppage
                   ELSE ppage' = resp.next_page /\ UNCHANGED ppc
    /\ UNCHANGED << progVars, keyVars, compileVars, genVars, scanVars, routeVars,
                    syncVars, papi >>

\* adapters/__init__.py:75  return items
PageReturn ==
    /\ ppc = "done"
    /\ ppc' = "returned"
    /\ UNCHANGED << progVars, keyVars, compileVars, genVars, scanVars, routeVars,
                    syncVars, papi, ppage, pitems, pseen, prepeat >>

InitPage ==
    /\ ProgIdle
    /\ KeysIdle
    /\ CompileIdle
    /\ GenIdle
    /\ ScanIdle
    /\ RouteIdle
    /\ SyncIdle
    /\ papi \in [ Pages -> UNION { PageResponses(p) : p \in Pages } ]
    /\ \A p \in Pages : papi[p] \in PageResponses(p)
    /\ ppage = 1
    /\ pitems = << >>
    /\ pseen = { }
    /\ prepeat = FALSE
    /\ ppc = "loop"

NextPage == PageRequest \/ PageReturn

SpecPage == InitPage /\ [][NextPage]_vars

\* the loop is a sequential program: it always takes its next step
SpecPageFair == SpecPage /\ WF_vars(PageRequest) /\ WF_vars(PageReturn)

----------------------------------------------------------------------------
(* Claims about apply_plan, checked under SpecApply *)

\* the DesiredStateSpec schema as the claims read it: an object with a provider,
\* every instance of which has a name
MeetsSchema(d) ==
    /\ d.kind = "dict"
    /\ d.provider # "<missing>"
    /\ \A i \in 1..Len(d.instances) : d.instances[i].name # Missing

\* the plan file exists and its new_spec is absent, empty or fails validation
InvalidPlan ==
    /\ plan.exists
    /\ \/ plan.new_spec.kind = "null"
       \/ plan.new_spec = RawEmpty
       \/ ~MeetsSchema(plan.new_spec)

\* the plan file exists and its new_spec passes validation
ValidPlan == plan.exists /\ MeetsSchema(plan.new_spec)

\* C1: a plan whose new_spec is absent, empty or invalid makes apply_plan raise a
\* ValueError-class error, and at no point of the run is spec.json or a Terraform
\* file written, a key fetched or created, or the provisioning tool invoked.
C1_InvalidPlanFailsWithoutWrites ==
    InvalidPlan =>
        /\ spec_json = OldSpec
        /\ tf_files = GenerateFiles(OldSpec)
        /\ key_store \in { NoKeys, OldKeys }
        /\ priv_key = 0
        /\ tool_log = << >>
        /\ cmd_log = << >>
        /\ pc \in { "load", "done" }
        /\ pc = "done" => outcome.kind = "raise" /\ IsValueError(outcome.err)

\* a plan whose new_spec has a provider but an instance without a name was refused
C1_Witness ==
    /\ plan.new_spec = RawBadInstance
    /\ pc = "done"
    /\ outcome = Raised("ValidationError", 0)

\* C2 (as stated): when init or apply of the provisioning tool exits non-zero,
\* apply_plan reads no outputs, deploys nothing and returns that exit code.
C2_NonZeroExitReturned ==
    (/\ pc = "done"
     /\ tool_log # << >>
     /\ tool_log[Len(tool_log)].tool \in { "init", "apply" }
     /\ tool_log[Len(tool_log)].code # 0)
    => /\ outcome = Returned(tool_log[Len(tool_log)].code)
       /\ deploys = << >>
       /\ cmd_log = << >>

ToolOrder == << "init", "apply", "output" >>

\* C3: the steps of apply_plan happen in the order validate, persist spec.json,
\* regenerate Terraform, obtain the keypair, init, apply, read outputs, deploy,
\* each only after the one before it completed successfully; no deploy command
\* is issued before apply returned 0 and the outputs were read.
C3_StepOrder ==
    /\ spec_json # OldSpec => ValidPlan /\ spec_json = ModelValidate(plan.new_spec)
    /\ tf_files # GenerateFiles(OldSpec) =>
           /\ spec_json = ModelValidate(plan.new_spec)
           /\ spec_json # OldSpec
    /\ priv_key # 0 => tf_files # GenerateFiles(OldSpec)
    /\ tool_log # << >> => priv_key # 0 /\ key_store.priv = priv_key
    /\ Len(tool_log) <= Len(ToolOrder)
    /\ \A i \in 1..Len(tool_log) :
           /\ tool_log[i].tool = ToolOrder[i]
           /\ i < Len(tool_log) => tool_log[i].code = 0
    /\ (deploys # << >> \/ cmd_log # << >> \/ server_ips # NoIps) =>
           /\ Len(tool_log) = Len(ToolOrder)
           /\ tool_log[Len(tool_log)].code = 0
    /\ cmd_log # << >> => deploys # << >>

\* a run that went through every step and deployed
C3_Witness ==
    /\ pc = "done"
    /\ outcome = Returned(0)
    /\ Len(deploys) = 3
    /\ cmd_log # << >>

\* the Terraform file set holds exactly the networks and instances of the spec
FilesMatch(files, spec) ==
    /\ Len(files.network) = Len(spec.networks)
    /\ Len(files.servers) = Len(spec.instances)
    /\ Len(files.outputs) = Len(spec.instances)
    /\ \A i \in 1..Len(spec.networks) : files.network[i].name = spec.networks[i].name
    /\ \A i \in 1..Len(spec.instances) :
           /\ files.servers[i].name = spec.instances[i].name
           /\ files.outputs[i].key = spec.instances[i].name

\* C4: when apply_plan fails after validation, nothing is rolled back: spec.json
\* holds the plan's new_spec and, if the generator ran, the Terraform files are
\* those of new_spec (they are still the old ones when the provider is unknown).
C4_NoRollback ==
    (pc = "done" /\ ValidPlan /\ outcome # Returned(0)) =>
        /\ spec_json = new_spec
        /\ spec_json.provider = plan.new_spec.provider
        /\ Len(spec_json.instances) =
               (IF plan.new_spec.has_lists THEN Len(plan.new_spec.instances) ELSE 0)
        /\ \A i \in 1..Len(spec_json.instances) :
               spec_json.instances[i] = plan.new_spec.instances[i]
        /\ IF plan.new_spec.provider \in GENERATOR_BY_PROVIDER
           THEN FilesMatch(tf_files, spec_json)
           ELSE tf_files = GenerateFiles(OldSpec)

\* a deploy error ended the run after spec.json and the Terraform files were written
C4_Witness ==
    /\ pc = "done"
    /\ outcome = Raised("Exception", 0)
    /\ spec_json = new_spec
    /\ new_spec.provider = "hetzner"
    /\ FilesMatch(tf_files, new_spec)

\* the deploys apply_plan owes: per instance with an address and workloads, in
\* spec order, each workload against the address server_ips gives for the instance
RECURSIVE OwedDeploys(_, _)
OwedDeploys(instances, ips) ==
    IF instances = << >> THEN << >>
    ELSE LET inst == Head(instances)
             mine == IF ips[inst.name] = "" THEN << >>
                     ELSE [ i \in 1..Len(inst.workloads) |->
                              [ ip |-> ips[inst.name], app |-> inst.workloads[i] ] ]
         IN  mine \o OwedDeploys(Tail(instances), ips)

DeployCalls == [ i \in 1..Len(deploys) |-> [ ip |-> deploys[i].ip, app |-> deploys[i].app ] ]

\* C5: after a successful provisioning apply the deploy calls made so far are the
\* first of the owed ones, in order (each workload of each instance with an
\* address and workloads at most once, against the instance's own address, none
\* for other instances), and a run that returns 0 has made every one of them.
C5_DeploysOwed ==
    /\ Len(deploys) <= Len(OwedDeploys(new_spec.instances, server_ips))
    /\ DeployCalls = SubSeq(OwedDeploys(new_spec.instances, server_ips), 1, Len(deploys))
    /\ (pc = "done" /\ outcome = Returned(0) /\ Len(tool_log) = 3) =>
           DeployCalls = OwedDeploys(new_spec.instances, server_ips)

\* the run returned 0 with web and job deployed and db (no workloads) skipped
C5_Witness ==
    /\ pc = "done"
    /\ outcome = Returned(0)
    /\ server_ips[NameDb] # ""
    /\ DeployCalls = << [ ip |-> "10.0.0.1", app |-> "ui" ],
                        [ ip |-> "10.0.0.1", app |-> "api" ],
                        [ ip |-> "10.0.0.3", app |-> "worker" ] >>

\* C6 (as stated): a remote command that exits non-zero is the last command of
\* the run: nothing more of that deploy, no later workload, no later instance.
C6_AnyFailureAborts ==
    \A i \in 1..Len(cmd_log) : ~cmd_log[i].ok => i = Len(cmd_log)

\* C6 (amended): a command or upload that fails outside deploy's git-sync try
\* block (the `test -d` and the fetch/reset) is the last one of the run and the
\* run ends with its exception; a failure of `test -d` or of fetch/reset is
\* caught, and deploy goes on with rm -rf of the directory.
C6_FailureAbortsExceptGitProbe ==
    \A i \in 1..Len(cmd_log) :
        ~cmd_log[i].ok =>
            IF cmd_log[i].stage \in { "test_dir", "git_fetch" }
            THEN i < Len(cmd_log) =>
                     /\ cmd_log[i + 1].stage = "rm_dir"
                     /\ cmd_log[i + 1].dn = cmd_log[i].dn
            ELSE /\ i = Len(cmd_log)
                 /\ pc = "done"
                 /\ outcome.kind = "raise"
                 /\ Len(deploys) = cmd_log[i].dn

\* the build of the first workload failed: the run ended there, one deploy made
C6_Witness ==
    /\ cmd_log # << >>
    /\ cmd_log[Len(cmd_log)].stage = "build"
    /\ ~cmd_log[Len(cmd_log)].ok
    /\ \E i \in 1..Len(cmd_log) : cmd_log[i].stage = "test_dir" /\ ~cmd_log[i].ok
    /\ pc = "done"
    /\ Len(deploys) = 1

----------------------------------------------------------------------------
(* Claims about ServerDeployer.run and upload_file, checked under SpecRun *)

\* C7: every run / upload_file call checks the transport first.  On a live
\* transport it makes no connection attempt and executes.  On a missing or dead
\* one it makes between 1 and 10 attempts, sleeping 5 seconds after each failed
\* one; if an attempt succeeds the command is executed, and if all 10 fail the
\* call raises ConnectionError and nothing is executed or logged.
C7_ReconnectBeforeCommand ==
    [][ runs' = runs + 1 =>
          IF transport = "active"
          THEN /\ attempts' = 0
               /\ sleeps' = 0
               /\ transport' = "active"
               /\ Len(cmd_log') = Len(cmd_log) + 1
          ELSE /\ attempts' \in 1..10
               /\ IF transport' = "active"
                  THEN /\ sleeps' = 5 * (attempts' - 1)
                       /\ Len(cmd_log') = Len(cmd_log) + 1
                       /\ cmd_log'[Len(cmd_log')].stage = dpc'
                       /\ outcome'.err # "ConnectionError"
                  ELSE /\ attempts' = 10
                       /\ sleeps' = 5 * 10
                       /\ transport' = transport
                       /\ cmd_log' = cmd_log
                       /\ last_log' = last_log
                       /\ hosts' = hosts
                       /\ outcome' = Raised("ConnectionError", 0) ]_vars

\* the transport died after a first command; the second call reconnected on its
\* tenth attempt and executed its command
C7_Witness ==
    /\ pc = "session"
    /\ runs = 2
    /\ Len(cmd_log) = 2
    /\ attempts = 10
    /\ sleeps = 45
    /\ transport = "active"

----------------------------------------------------------------------------
(* Claims about secrets in the deployer's output, checked under SpecApply *)

\* C8 (as stated): with a token set, neither the last "Running:" line nor the
\* message of the last exception the deployer raised contains the token.
C8_NoSecretSurfaced ==
    gh_token # << >> =>
        /\ ~Contains(last_log, gh_token)
        /\ ~Contains(raised.text, gh_token)

----------------------------------------------------------------------------
(* Claims about deploy(app), checked under SpecDeploy *)

\* C9: within each deploy call the stages come in the order packages/runtime,
\* git sync, install, build, unit install and (re)start, proxy routing, TLS; the
\* service is restarted only after a successful git sync, install and build of
\* that call, routing commands come only after the restart succeeded, and TLS
\* commands only after the site was uploaded and the proxy reloaded.
C9_StageOrder ==
    \A j \in 1..Len(cmd_log) :
        LET e == cmd_log[j]
            app == AppOf(e.app)
            Before(S) == \E i \in 1..(j - 1) :
                            /\ cmd_log[i].dn = e.dn
                            /\ cmd_log[i].stage \in S
                            /\ cmd_log[i].ok
        IN  /\ \A i \in 1..(j - 1) :
                   cmd_log[i].dn = e.dn =>
                       StageGroup(cmd_log[i].stage) <= StageGroup(e.stage)
            /\ e.stage = "restart" =>
                   /\ Before({ "git_fetch", "git_clone" })
                   /\ app.install => Before({ "install" })
                   /\ app.build => Before({ "build" })
                   /\ Before({ "unit_upload" })
            /\ StageGroup(e.stage) = 6 => Before({ "restart" })
            /\ StageGroup(e.stage) = 7 =>
                   Before({ "site_upload" }) /\ Before({ "nginx_reload" })

\* the second deploy of the session got as far as a successful certificate request
C9_Witness ==
    /\ runs = 2
    /\ cmd_log # << >>
    /\ cmd_log[Len(cmd_log)].stage = "cert_run"
    /\ cmd_log[Len(cmd_log)].ok
    /\ cmd_log[Len(cmd_log)].dn = 2

\* the host state one uninterrupted deploy(app, configure_nginx) leaves, given
\* the state h0 before it
FinalHost(h0, app, configure_nginx) ==
    LET routed == configure_nginx /\ app.ports # << >>
        names == NormalizeServerNames(app.server_names)
        tls == routed /\ app.https /\ names # << >>
        before == h0.apps[app.name]
    IN  [ h0 EXCEPT
            !.node = IF app.nodejs THEN "v20" ELSE @,
            !.nginx = IF routed THEN TRUE ELSE @,
            !.certtool = IF tls /\ @ = "none" THEN "certbot" ELSE @,
            !.default_site = IF routed THEN FALSE ELSE @,
            !.apps[app.name] =
                [ dir |-> "synced",
                  env_file |-> IF app.env_upload \/ app.env
                               THEN [ uploaded |-> app.env_upload,
                                      inline |-> app.env ]
                               ELSE before.env_file,
                  unit |-> [ description |-> app.name,
                             env_files |-> EnvFileDirectives(app) ],
                  enabled |-> TRUE,
                  running |-> TRUE,
                  site |-> IF routed
                           THEN [ port |-> app.ports[1], names |-> names, tls |-> tls ]
                           ELSE before.site,
                  site_enabled |-> routed \/ before.site_enabled ] ]

\* C10: every deploy call that returns, whether the first, a repetition after a
\* successful one or a re-run after failed ones, leaves the host in the state one
\* uninterrupted deploy leaves; and in an unchanged environment a deploy that
\* follows a successful one succeeds.
C10_Idempotent ==
    /\ (pc = "caller" /\ outcome = Returned(0)) =>
           hosts[DeployIp] = FinalHost(host0, AppOf(cur_app), cfg_nginx)
    /\ (prev_ok /\ pc # "deploying") => outcome = Returned(0)

\* a second deploy succeeded after a first one that had cloned, with fetch failing
C10_Witness ==
    /\ runs = 2
    /\ prev_ok
    /\ pc = "caller"
    /\ outcome = Returned(0)
    /\ "git_fetch" \in faulty
    /\ host0 = HostFresh
    /\ cur_app = "ui"

\* a deploy that failed part-way was followed by one that returned
C10_WitnessRecovered ==
    /\ runs = 2
    /\ ~prev_ok
    /\ pc = "caller"
    /\ outcome = Returned(0)
    /\ raised # NoError
    /\ hosts[DeployIp].apps[cur_app].dir = "synced"

----------------------------------------------------------------------------
(* Claims about get_or_create_project_ssh_key, checked under SpecKeys *)

\* C11 (as stated): starting with no persisted key, whatever the interleaving of
\* the callers, at most one keypair is ever generated, all callers that returned
\* hold the same pair, and the persisted private and public key, once both are
\* there, belong to the same pair.
C11_GeneratedOnce ==
    /\ kmade <= 1
    /\ \A p, q \in Callers :
           (kpc[p] = "done" /\ kpc[q] = "done") => kret[p] = kret[q]
    /\ \A p \in Callers : kpc[p] = "done" => kret[p].priv = kret[p].pub
    /\ HasKeys(key_store) => key_store.priv = key_store.pub

\* C28 (as stated): across the calls for one project id, also after a call that
\* was interrupted between its two writes, a persisted private key is never
\* replaced by a different one.
C28_KeyNeverReplaced ==
    [][key_store.priv # 0 => key_store'.priv = key_store.priv]_vars

----------------------------------------------------------------------------
(* Claims about the routing mode, checked under SpecApply *)

\* deploy call i has returned normally
DeployFinished(i) ==
    \/ i < Len(deploys)
    \/ i = Len(deploys) /\ pc \in { "workloads", "loop", "combined" }
    \/ i = Len(deploys) /\ outcome = Returned(0)

\* the successful uploads of stage st made during deploy call i
UploadsIn(st, i) ==
    { j \in 1..Len(cmd_log) :
        cmd_log[j].stage = st /\ cmd_log[j].dn = i /\ cmd_log[j].ok }

\* the successful uploads of the combined site on the host at ip
CombinedUploadsOn(ip) ==
    { j \in 1..Len(cmd_log) :
        cmd_log[j].stage = "c_site_upload" /\ cmd_log[j].ip = ip /\ cmd_log[j].ok }

PerAppSiteStages == { "nginx_check", "nginx_install", "nginx_mkdir", "nginx_enable",
                      "nginx_start", "site_upload", "site_ln", "site_rm_default",
                      "nginx_reload" }

CombinedSiteStages == { "c_site_upload", "c_site_ln", "c_rm_default", "c_nginx_reload" }

CombinedMode == nginx_mode \in { "combined", "single", "shared" }

\* the deploy calls made against ip, as indices into deploys
DeploysOn(ip) == { i \in 1..Len(deploys) : deploys[i].ip = ip }

\* the routing-mode property; needsPort says whether only workloads that declare
\* a port are expected to be routed
RoutingByMode(needsPort) ==
    LET Routable(name) == ~needsPort \/ AppOf(name).ports # << >>
    IN
    /\ \A i \in 1..Len(deploys) : deploys[i].configure_nginx = ~CombinedMode
    /\ ~CombinedMode =>
         /\ \A j \in 1..Len(cmd_log) : cmd_log[j].stage \notin CombinedSiteStages
         /\ \A i \in 1..Len(deploys) :
               (DeployFinished(i) /\ Routable(deploys[i].app)) =>
                   Cardinality(UploadsIn("site_upload", i)) = 1
    /\ CombinedMode =>
         /\ \A j \in 1..Len(cmd_log) : cmd_log[j].stage \notin PerAppSiteStages
         /\ \A ip \in IPs : Cardinality(CombinedUploadsOn(ip)) <= 1
         /\ \A j \in 1..Len(cmd_log) :
               cmd_log[j].stage \in CombinedSiteStages =>
                   \E k \in 1..Len(new_spec.instances) :
                       LET inst == new_spec.instances[k] IN
                       /\ server_ips[inst.name] = cmd_log[j].ip
                       /\ Cardinality(DeploysOn(cmd_log[j].ip)) = Len(inst.workloads)
                       /\ \A i \in DeploysOn(cmd_log[j].ip) : i <= cmd_log[j].dn
                       /\ \A n \in 1..Len(cmd_log) :
                              (cmd_log[n].ip = cmd_log[j].ip
                               /\ cmd_log[n].stage \notin CombinedSiteStages
                               /\ StageGroup(cmd_log[n].stage) # 7) => n < j
         /\ \A k \in 1..Len(new_spec.instances) :
               LET inst == new_spec.instances[k] IN
               (/\ k < inst_i \/ outcome = Returned(0)
                /\ Len(tool_log) = 3
                /\ server_ips[inst.name] # ""
                /\ \E w \in 1..Len(inst.workloads) : Routable(inst.workloads[w])) =>
                   Cardinality(CombinedUploadsOn(server_ips[inst.name])) = 1

----------------------------------------------------------------------------
(* Claims about graph_to_spec, checked under SpecCompile *)

\* C13 (as stated): two invocations on the same graph and provider, each in its
\* own process, return the same spec.
C13_Deterministic ==
    Len(cout) = 2 => cout[1].spec = cout[2].spec

\* the k-th node of type t in the graph's node list
NodesOfType(g, t) == SelectSeq(g.nodes, LAMBDA n : n.type = t)

\* an in_network edge leads from the node id to a Network node of the graph
HasNetworkEdge(g, id) ==
    \E i \in 1..Len(g.edges) :
        /\ g.edges[i].type = "in_network"
        /\ g.edges[i].from = id
        /\ \E j \in 1..Len(g.nodes) :
               g.nodes[j].type = "Network" /\ g.nodes[j].id = g.edges[i].to

\* C14: in every returned spec each instance's network is the name of a
\* NetworkSpec of that spec; an instance whose node has no in_network edge to a
\* network node of the graph is on "default"; and when an instance is on
\* "default" and no network node is named "default", the spec holds a NetworkSpec
\* "default" with CIDR 10.0.0.0/24.
C14_InstanceNetworkExists ==
    \A k \in 1..Len(cout) :
        LET out == cout[k].spec
            servers == NodesOfType(graph, "ComputeInstance")
            nets == { out.networks[i] : i \in 1..Len(out.networks) }
        IN  /\ Len(out.instances) = Len(servers)
            /\ \A i \in 1..Len(out.instances) :
                   /\ \E n \in nets : n.name = out.instances[i].network
                   /\ ~HasNetworkEdge(graph, servers[i].id) =>
                          out.instances[i].network = "default"
                   /\ (/\ out.instances[i].network = "default"
                       /\ \A j \in 1..Len(graph.nodes) :
                              graph.nodes[j].type = "Network" =>
                                  /\ graph.nodes[j].name # "default"
                                  /\ graph.nodes[j].id # "default") =>
                          [ name |-> "default", cidr |-> "10.0.0.0/24" ] \in nets

\* an instance whose only edge leads to a network absent from the graph was put
\* on a synthesized "default" network, next to a scanned one
C14_Witness ==
    /\ cout # << >>
    /\ \E i \in 1..Len(graph.edges) : graph.edges[i].to = "hetzner:network:9"
    /\ Len(cout[1].spec.instances) = 1
    /\ cout[1].spec.instances[1].network = "default"
    /\ cout[1].spec.networks = << [ name |-> "app", cidr |-> "10.1.0.0/16" ],
                                  [ name |-> "default", cidr |-> "10.0.0.0/24" ] >>

\* the graph without its Volume, LoadBalancer, Firewall and IpAddress nodes and
\* without the edges that do not start at one of its ComputeInstance nodes
StripUnread(g) ==
    [ nodes |-> SelectSeq(g.nodes, LAMBDA n :
                    n.type \notin { "Volume", "LoadBalancer", "Firewall", "IpAddress" }),
      edges |-> SelectSeq(g.edges, LAMBDA e :
                    \E j \in 1..Len(g.nodes) :
                        g.nodes[j].type = "ComputeInstance" /\ g.nodes[j].id = e.from) ]

\* C15: every returned spec has one InstanceSpec per ComputeInstance node, in
\* node order, each without workloads; one NetworkSpec per Network node, in node
\* order, followed by at most one more, named "default"; and it is the spec the
\* graph yields with its Volume, LoadBalancer, Firewall and IpAddress nodes and
\* its edges that do not start at a ComputeInstance node taken away.
C15_OneSpecPerNode ==
    \A k \in 1..Len(cout) :
        LET out == cout[k].spec
            servers == NodesOfType(graph, "ComputeInstance")
            netnodes == NodesOfType(graph, "Network")
        IN  /\ Len(out.instances) = Len(servers)
            /\ \A i \in 1..Len(servers) :
                   /\ out.instances[i].name =
                          (IF servers[i].name = PyNone THEN servers[i].id
                           ELSE servers[i].name)
                   /\ out.instances[i].workloads = << >>
            /\ Len(out.networks) \in { Len(netnodes), Len(netnodes) + 1 }
            /\ \A i \in 1..Len(netnodes) :
                   out.networks[i].name =
                       (IF netnodes[i].name = PyNone THEN netnodes[i].id
                        ELSE netnodes[i].name)
            /\ Len(out.networks) = Len(netnodes) + 1 =>
                   out.networks[Len(out.networks)].name = "default"
            /\ out = GraphToSpec(StripUnread(graph), cprovider, cout[k].order)

\* a graph with a volume, an edge from the volume into a network, a network and
\* a server was compiled
C15_Witness ==
    /\ cout # << >>
    /\ Len(NodesOfType(graph, "Volume")) = 1
    /\ Len(NodesOfType(graph, "ComputeInstance")) = 1
    /\ Len(NodesOfType(graph, "Network")) = 1
    /\ \E i \in 1..Len(graph.edges) :
           graph.edges[i].from = "hetzner:volume:1" /\ graph.edges[i].type = "in_network"
    /\ Len(cout[1].spec.instances) = 1
    /\ Len(cout[1].spec.networks) = 2

\* the positions of the in_network edges that leave the node id for a Network
\* node of the graph
NetworkEdgesOf(g, id) ==
    { i \in 1..Len(g.edges) :
        /\ g.edges[i].type = "in_network"
        /\ g.edges[i].from = id
        /\ \E j \in 1..Len(g.nodes) :
               g.nodes[j].type = "Network" /\ g.nodes[j].id = g.edges[i].to }

\* the name graph_to_spec gives the Network node with this id
NetworkNameOfId(g, id) ==
    LET n == g.nodes[CHOOSE j \in 1..Len(g.nodes) :
                         g.nodes[j].type = "Network" /\ g.nodes[j].id = id]
    IN  IF n.name = PyNone THEN n.id ELSE n.name

\* C21 (as stated): an instance whose node has in_network edges to Network nodes
\* of the graph is on the network of the first such edge, in edge order.
C21_FirstEdgeWins ==
    \A k \in 1..Len(cout) :
        LET out == cout[k].spec
            servers == NodesOfType(graph, "ComputeInstance")
        IN  \A i \in 1..Len(servers) :
                LET es == NetworkEdgesOf(graph, servers[i].id)
                IN  es # { } =>
                        out.instances[i].network =
                            NetworkNameOfId(graph,
                                graph.edges[CHOOSE e \in es : \A f \in es : e <= f].to)

\* the ComputeInstance nodes of the graph that have a region, in node order
RegionedServers(g) ==
    SelectSeq(g.nodes, LAMBDA n :
        n.type = "ComputeInstance" /\ n.region # PyNone /\ n.region # "")

\* C22 (as stated): the spec-level region is the region of the first
\* ComputeInstance node, in node order, that has a region, and is None when no
\* instance has one.
C22_FirstRegion ==
    \A k \in 1..Len(cout) :
        LET with == RegionedServers(graph)
        IN  cout[k].spec.region = (IF with = << >> THEN PyNone ELSE with[1].region)

----------------------------------------------------------------------------
(* Claims about generate, checked under SpecGen *)

\* C16: right after a generate call every file of the fixed set is present and
\* holds what the same call writes into an empty directory, whatever the
\* directory held before (nothing, another spec's files, the same spec's files,
\* hand-edited or deleted files); files outside the set are as they were.
C16_FullRegeneration ==
    glast = "generate" =>
        \A f \in { "backend.tf", "providers.tf", "variables.tf", "network.tf",
                   "servers.tf", "outputs.tf" } :
            /\ gdir[f].present
            /\ gdir[f] = gref[f]

\* generate ran as the third operation on a directory that by then held earlier
\* content and a hand-edited file of the user's own, which it left alone
C16_Witness ==
    /\ gops = 3
    /\ glast = "generate"
    /\ gspec = GenSpecOf(<< NameWeb >>)
    /\ Len(gdir["servers.tf"].blocks) = 1
    /\ gdir["main.tf"] = HandEdited

\* C17 (as stated): no generated resource identifier contains '-', and the
\* generated servers.tf and outputs.tf never hold two entries with the same
\* identifier.
C17_UniqueIdentifiers ==
    glast = "generate" =>
        LET servers == gdir["servers.tf"].blocks
            outputs == gdir["outputs.tf"].blocks
            networks == gdir["network.tf"].blocks
        IN  /\ \A i \in 1..Len(servers) : ~Contains(servers[i].res, << "-" >>)
            /\ \A i \in 1..Len(networks) : ~Contains(networks[i].res, << "-" >>)
            /\ \A i \in 1..Len(outputs) : ~Contains(outputs[i].ref, << "-" >>)
            /\ \A i, j \in 1..Len(servers) :
                   servers[i].res = servers[j].res => i = j
            /\ \A i, j \in 1..Len(outputs) :
                   outputs[i].ref = outputs[j].ref => i = j

----------------------------------------------------------------------------
(* Claims about run_scan and the Hetzner adapter's scan, checked under SpecScan *)

\* C18: a run without a token sends no request and ends raising; a run in which
\* a listing request failed has ended raising; a run that raised returned no
\* graph and left scan.json as it was before the run, as does a run still under
\* way; a run that returned sent at least one request per listing, and scan.json
\* is exactly the returned graph, holding no node of the previous one.
C18_ScanAllOrNothing ==
    /\ ~stoken => sreqs = 0 /\ (spc = "done" => sout.kind = "raise")
    /\ sfailed => spc = "done" /\ sout.kind = "raise"
    /\ spc # "done" => scan_json = scan_old /\ sout.kind = "none"
    /\ (spc = "done" /\ sout.kind = "raise") =>
           scan_json = scan_old /\ sout.graph = [ nodes |-> << >>, edges |-> << >> ]
    /\ (spc = "done" /\ sout.kind = "return") =>
           /\ sreqs >= 7
           /\ scan_json = sout.graph
           /\ \A i \in 1..Len(scan_json.nodes) :
                  scan_json.nodes[i].id # << "hetzner", "server", 77 >>

\* the fourth request of a run failed: the run raised and the earlier scan's
\* graph is still in scan.json
C18_Witness ==
    /\ spc = "done"
    /\ sout.kind = "raise"
    /\ sfailed
    /\ sreqs = 4
    /\ scan_old = OldGraph
    /\ scan_json = OldGraph

\* C19 (as stated): in every graph scan returns the node ids are pairwise distinct
\* and both ends of every edge are ids of nodes of the graph.
C19_NoDanglingEdges ==
    (spc = "done" /\ sout.kind = "return") =>
        LET g == sout.graph
            ids == { g.nodes[i].id : i \in 1..Len(g.nodes) }
        IN  /\ \A i, j \in 1..Len(g.nodes) : g.nodes[i].id = g.nodes[j].id => i = j
            /\ \A e \in 1..Len(g.edges) : g.edges[e].from \in ids /\ g.edges[e].to \in ids

----------------------------------------------------------------------------
(* Claims about the git sync of deploy, checked under SpecDeploy *)

\* the step executed a command, and that command exited 0
StepRan == Len(cmd_log') = Len(cmd_log) + 1
StepRanOk == StepRan /\ cmd_log'[Len(cmd_log')].ok

\* the app directory on the host, before and after the step
DirBefore == hosts[cur_ip].apps[cur_app].dir
DirAfter == hosts'[cur_ip].apps[cur_app].dir

TokenInUrl == << "https://" >> \o gh_token \o << "@" >>
BearerHeader == << "git -c http.extraheader=Authorization: Bearer " >> \o gh_token

\* C20 (as stated): when the directory exists the test is followed by the fetch,
\* the fetch carries the token in a bearer header and in no URL, and the
\* directory is not deleted: rm -rf and clone run only when it does not exist.
C20_SyncInPlace ==
    [][ /\ (dpc = "test_dir" /\ StepRan /\ DirBefore # "absent") => dpc' = "git_fetch"
        /\ (dpc = "git_fetch" /\ StepRan) =>
               /\ Contains(CmdText("git_fetch", AppOf(cur_app), gh_token), BearerHeader)
               /\ ~Contains(CmdText("git_fetch", AppOf(cur_app), gh_token), TokenInUrl)
        /\ (dpc \in { "rm_dir", "git_clone" } /\ StepRan) =>
               ~\E j \in 1..Len(cmd_log) :
                   /\ cmd_log[j].dn = Len(deploys)
                   /\ cmd_log[j].stage = "test_dir"
                   /\ cmd_log[j].ok ]_vars

\* C20 (amended): the fetch runs only in an existing directory, with the token in
\* a bearer header and in no URL; when it succeeds the directory is kept and
\* neither rm -rf nor clone follows.  deploy goes on to rm -rf, mkdir and clone
\* exactly when the directory test or the fetch did not succeed (the directory is
\* missing, is no checkout, the command or the connection failed), and the clone
\* of an https repository then carries the token in its URL.
C20_SyncOrReclone ==
    [][ /\ (dpc = "test_dir" /\ StepRanOk) => (DirBefore # "absent" /\ dpc' = "git_fetch")
        /\ (dpc = "test_dir" /\ StepRan /\ DirBefore = "absent") =>
               (~StepRanOk /\ dpc' = "rm_dir")
        /\ (dpc = "git_fetch" /\ StepRan) =>
               /\ DirBefore # "absent"
               /\ Contains(CmdText("git_fetch", AppOf(cur_app), gh_token), BearerHeader)
               /\ ~Contains(CmdText("git_fetch", AppOf(cur_app), gh_token), TokenInUrl)
               /\ StepRanOk => (DirAfter = "synced"
                                /\ dpc' \notin { "rm_dir", "mkdir_dest", "git_clone" })
               /\ ~StepRanOk => (DirAfter = DirBefore /\ dpc' = "rm_dir")
        /\ (dpc' = "rm_dir" /\ dpc # "rm_dir") =>
               (dpc \in { "test_dir", "git_fetch" } /\ ~StepRanOk)
        /\ (dpc = "rm_dir" /\ StepRanOk) => DirAfter = "absent"
        /\ (dpc = "git_clone" /\ StepRan) =>
               /\ DirBefore = "absent"
               /\ AppOf(cur_app).repo_url[1] = "https://" =>
                      Contains(CmdText("git_clone", AppOf(cur_app), gh_token), TokenInUrl)
        /\ (dpc = "git_clone" /\ StepRanOk) => DirAfter = "synced" ]_vars

\* on a host whose app directory existed but was no checkout, the fetch failed
\* and deploy deleted the directory and cloned
C20_Witness ==
    /\ host0 = HostPartial
    /\ runs = 1
    /\ Len(cmd_log) >= 4
    /\ cmd_log[Len(cmd_log)].stage = "git_clone"
    /\ cmd_log[Len(cmd_log)].ok
    /\ \E j \in 1..Len(cmd_log) : cmd_log[j].stage = "test_dir" /\ cmd_log[j].ok
    /\ \E j \in 1..Len(cmd_log) : cmd_log[j].stage = "git_fetch" /\ ~cmd_log[j].ok
    /\ hosts[cur_ip].apps[cur_app].dir = "synced"

----------------------------------------------------------------------------
(* Claims about the combined site, checked under SpecRoute *)

\* the positions of the workloads that declare a port
WithPorts(apps) == { i \in 1..Len(apps) : apps[i].ports # << >> }

\* the name, letter case aside, contains the word
NameContains(app, word) ==
    \E i \in 1..(Len(app.name) - Len(word) + 1) :
        \A j \in 1..Len(word) : Lower(app.name[i + j - 1]) = word[j]

\* the workload that serves the root path: the first with a port whose name
\* contains "ui", or else the first with a port
ExpectedRoot(apps) ==
    LET c == WithPorts(apps)
        u == { i \in c : NameContains(apps[i], << "u", "i" >>) }
        from == IF u # { } THEN u ELSE c
    IN  CHOOSE i \in from : \A j \in from : i <= j

\* C23: a combined site is written exactly when some workload declares a port;
\* its root path goes to the first port of the first such workload whose name
\* contains "ui" (letter case aside, as the code compares the lower-cased name),
\* or else of the first such workload; every other such workload has, in list
\* order, one location, /api/ if its name contains "api" and /<name>/ otherwise,
\* on its first port; workloads without ports have none.
C23_CombinedLocations ==
    rconf.called =>
        LET c == WithPorts(rapps)
        IN  /\ rconf.written <=> c # { }
            /\ c # { } =>
                 LET r == ExpectedRoot(rapps)
                     others == SelectSeq([ i \in 1..Len(rapps) |-> i ],
                                         LAMBDA i : i \in c /\ i # r)
                 IN  /\ rconf.root_port = rapps[r].ports[1]
                     /\ Len(rconf.locations) = Len(others)
                     /\ \A k \in 1..Len(others) :
                            LET app == rapps[others[k]]
                            IN  /\ rconf.locations[k].port = app.ports[1]
                                /\ rconf.locations[k].prefix =
                                       (IF NameContains(app, << "a", "p", "i" >>)
                                        THEN << "/", "a", "p", "i", "/" >>
                                        ELSE << "/" >> \o app.name \o << "/" >>)

\* a site was written for three workloads with ports of which the last, "GUI",
\* serves the root and the first two have locations
C23_Witness ==
    /\ rconf.called
    /\ Len(rapps) = 3
    /\ rapps[3].name = << "G", "U", "I" >>
    /\ rapps[1].name = << "w", "e", "b" >>
    /\ rconf.root_port = 3001
    /\ Len(rconf.locations) = 2
    /\ rconf.locations[2].prefix = << "/", "a", "p", "i", "/" >>

\* C27 (as stated): for workloads with unique names, no two locations of the
\* combined site have the same prefix, and none is the root path.
C27_DistinctPrefixes ==
    (/\ rconf.written
     /\ \A i, j \in 1..Len(rapps) : i # j => rapps[i].name # rapps[j].name) =>
        /\ \A k \in 1..Len(rconf.locations) : rconf.locations[k].prefix # << "/" >>
        /\ \A k, l \in 1..Len(rconf.locations) :
               k # l => rconf.locations[k].prefix # rconf.locations[l].prefix

----------------------------------------------------------------------------
(* Claims about TLS certificates, checked under SpecApply *)

CertStages == { "cert_check", "cert_install", "cert_run" }

\* some configured server name is left after blanks are dropped
HasServerName(app) ==
    \E i \in 1..Len(app.server_names) :
        app.server_names[i] \notin { "", " " }

\* C24: a certificate command is issued only for a workload that declares a port,
\* sets https and has a non-blank server name (in combined mode: only on a host of
\* an instance with a workload that declares a port and sets https and one that
\* declares a port and has a non-blank server name); a workload with a port that
\* sets https without server names gets its site and no certificate command, and
\* its deploy does not fail for it; in per-app mode a workload without ports
\* gets no site command and no certificate command.
C24_CertNeedsNames ==
    /\ \A j \in 1..Len(cmd_log) :
          LET e == cmd_log[j] IN
          /\ (e.stage \in CertStages /\ ~CombinedMode) =>
                 /\ AppOf(e.app).ports # << >>
                 /\ AppOf(e.app).https
                 /\ HasServerName(AppOf(e.app))
          /\ (e.stage \in CertStages /\ CombinedMode) =>
                 \E k \in 1..Len(new_spec.instances) :
                     LET inst == new_spec.instances[k] IN
                     /\ server_ips[inst.name] = e.ip
                     /\ \E w \in 1..Len(inst.workloads) :
                            /\ AppOf(inst.workloads[w]).ports # << >>
                            /\ AppOf(inst.workloads[w]).https
                     /\ \E w \in 1..Len(inst.workloads) :
                            /\ AppOf(inst.workloads[w]).ports # << >>
                            /\ HasServerName(AppOf(inst.workloads[w]))
          /\ (e.stage \in (PerAppSiteStages \cup CertStages) /\ ~CombinedMode) =>
                 AppOf(e.app).ports # << >>
    /\ \A i \in 1..Len(deploys) :
          LET app == AppOf(deploys[i].app) IN
          (/\ ~CombinedMode
           /\ app.ports # << >>
           /\ app.https
           /\ ~HasServerName(app)) =>
              /\ \A j \in 1..Len(cmd_log) :
                     cmd_log[j].dn = i => cmd_log[j].stage \notin CertStages
              /\ DeployFinished(i) => Cardinality(UploadsIn("site_upload", i)) = 1
              /\ (/\ cmd_log # << >>
                  /\ cmd_log[Len(cmd_log)].dn = i
                  /\ cmd_log[Len(cmd_log)].stage = "nginx_reload"
                  /\ cmd_log[Len(cmd_log)].ok
                  /\ i = Len(deploys)) => outcome.kind # "raise"

\* a per-app run returned 0: ui got its certificate, api (https, only a blank
\* server name) got its site and no certificate command, worker (https, a
\* server name, no port) got neither
C24_Witness ==
    /\ pc = "done"
    /\ outcome = Returned(0)
    /\ ~CombinedMode
    /\ \E j \in 1..Len(cmd_log) :
           cmd_log[j].app = "ui" /\ cmd_log[j].stage = "cert_run" /\ cmd_log[j].ok
    /\ \E j \in 1..Len(cmd_log) :
           cmd_log[j].app = "api" /\ cmd_log[j].stage = "site_upload" /\ cmd_log[j].ok
    /\ \A j \in 1..Len(cmd_log) :
           cmd_log[j].app = "api" => cmd_log[j].stage \notin CertStages
    /\ \E j \in 1..Len(cmd_log) : cmd_log[j].app = "worker"
    /\ \A j \in 1..Len(cmd_log) :
           cmd_log[j].app = "worker" =>
               cmd_log[j].stage \notin (PerAppSiteStages \cup CertStages)

----------------------------------------------------------------------------
(* Claims about apply_plan's return value, checked under SpecApply *)

\* the provisioning tool's step exited 0
ToolExitedZero(tool) ==
    \E k \in 1..Len(tool_log) : tool_log[k].tool = tool /\ tool_log[k].code = 0

\* the deploy call made last ended with an exception
LastDeployFailed ==
    /\ deploys # << >>
    /\ dpc = "raised"
    /\ inst_i <= Len(new_spec.instances)
    /\ app_i <= Len(new_spec.instances[inst_i].workloads)

\* the workloads of the instances of the spec, with or without an address
RECURSIVE WorkloadCount(_)
WorkloadCount(instances) ==
    IF instances = << >> THEN 0
    ELSE Len(Head(instances).workloads) + WorkloadCount(Tail(instances))

----------------------------------------------------------------------------
(* Claims about the references between the generated files, checked under
   SpecApply *)

\* generate has run on the validated new_spec of the plan
Generated ==
    /\ ValidPlan
    /\ plan.new_spec.provider = "hetzner"
    /\ pc \notin { "load", "persist", "generate" }

\* C26 (as stated): once generate has run on a spec that passed validation,
\* every network a server block of servers.tf refers to has its data block in
\* network.tf, every server outputs.tf refers to is declared in servers.tf, and
\* outputs.tf has one entry per instance (none, next to an empty servers.tf, for
\* a spec without instances).
C26_ReferencesDeclared ==
    Generated =>
        /\ \A i \in 1..Len(tf_files.servers) :
               \E j \in 1..Len(tf_files.network) :
                   tf_files.network[j].res = tf_files.servers[i].network_ref
        /\ \A i \in 1..Len(tf_files.outputs) :
               \E j \in 1..Len(tf_files.servers) :
                   tf_files.servers[j].res = tf_files.outputs[i].ref
        /\ Len(tf_files.outputs) = Len(new_spec.instances)
        /\ Len(tf_files.servers) = Len(new_spec.instances)
        /\ \A i \in 1..Len(new_spec.instances) :
               tf_files.outputs[i].key = new_spec.instances[i].name

----------------------------------------------------------------------------
(* Claims about sync_spec, checked under SpecSync *)

\* C29: right after a sync_spec that found scan.json, spec.json holds a spec with
\* one instance per ComputeInstance node of scan.json, none of which has a
\* workload, and it is the spec sync_spec writes for that scan.json when there
\* was no spec.json before; and an apply_plan of the no-change plan generated
\* from that spec leaves spec.json without workloads and deploys nothing.
C29_SyncDropsWorkloads ==
    /\ wlast = "sync" =>
          /\ wspec_json.present
          /\ Len(wspec_json.instances) = Len(NodesOfType(wscan_json, "ComputeInstance"))
          /\ \A i \in 1..Len(wspec_json.instances) :
                 wspec_json.instances[i].workloads = << >>
          /\ \E order \in HashOrders :
                 wspec_json = SpecFile(GraphToSpec(wscan_json, "hetzner", order))
    /\ (wlast = "apply" /\ wplan.from_sync) =>
          /\ wdeploys = << >>
          /\ \A i \in 1..Len(wspec_json.instances) :
                 wspec_json.instances[i].workloads = << >>

\* spec.json held web with ui and api, which an earlier apply_plan deployed;
\* right after a scan that found the server web and sync_spec, web is in
\* spec.json without workloads
C29_Witness ==
    /\ wlast = "sync"
    /\ wdeploys = << [ inst |-> "web", app |-> "ui" ], [ inst |-> "web", app |-> "api" ] >>
    /\ Len(wspec_json.instances) = 1
    /\ wspec_json.instances[1].name = "web"
    /\ wspec_json.instances[1].workloads = << >>

\* the no-change plan generated from the synced spec was applied: nothing deployed
C29_WitnessApplied ==
    /\ wlast = "apply"
    /\ wplan.from_sync
    /\ Len(wspec_json.instances) = 1
    /\ wdeploys = << >>

----------------------------------------------------------------------------
(* Claims about the paginated fetch, checked under SpecPageFair *)

\* the pages from page p on, following the next-page cursors, k at most
RECURSIVE CursorChain(_, _)
CursorChain(p, k) ==
    IF k = 0 THEN << >>
    ELSE IF papi[p].next_page = 0 THEN << p >>
    ELSE << p >> \o CursorChain(papi[p].next_page, k - 1)

\* C30 (as stated): whatever the provider answers, the fetch never requests a
\* page twice, it ends, and when it has ended it has returned the items of page 1
\* and of the pages the cursors name, in that order, up to the first response
\* without a cursor.
C30_PaginatedFetch ==
    /\ [](~prepeat)
    /\ <>(ppc = "returned")
    /\ [](ppc = "returned" =>
             /\ papi[ppage].next_page = 0
             /\ pitems = CursorChain(1, MaxPages))

====
